---- MODULE Spec2Model ----
(***************************************************************************)
(* Model of server/api/api.go of focalboard: the tree integrity filter     *)
(* (filterOrphanBlocks) and the composite boards-and-blocks handlers       *)
(* (handleCreateBoardsAndBlocks, handlePatchBoardsAndBlocks,               *)
(* handleDeleteBoardsAndBlocks), the metadata stamper                      *)
(* (stampModificationMetadata) and the read handlers that use the filter   *)
(* (handleExport, handleGetSubTree) and the block-inserting handlers       *)
(* (handlePostBlocks, handleImport).                                       *)
(*                                                                         *)
(* The module holds several specifications over one set of variables:      *)
(*   FilterSpec / FairFilterSpec  filterOrphanBlocks run on a drawn list   *)
(*   CreateSpec                   one composite create request             *)
(*   PatchSpec                    one composite patch request              *)
(*   DeleteSpec                   one composite delete request             *)
(*   MutationSpec                 one composite request of any kind        *)
(*   StampSpec                    stampModificationMetadata on a batch     *)
(*   ReadSpec                     one export or subtree request            *)
(*   InsertSpec                   one postBlocks or import request         *)
(*   ConcurrentSpec               one composite patch request while other  *)
(*                                requests delete boards and blocks        *)
(* A specification leaves the variables of the other parts at their        *)
(* initial values.                                                         *)
(***************************************************************************)
EXTENDS Integers, Sequences, FiniteSets, TLC

VARIABLES
    \* ---- filterOrphanBlocks ----
    input,                  \* the list the caller passed first
    blocks,                 \* parameter `blocks` of the running call
    queue,                  \* local `queue`
    childrenOfBlockWithID,  \* local map parentID -> children, in input order
    ret,                    \* the list being built (the second `blocks`)
    fpc,                    \* position in filterOrphanBlocks
    pass,                   \* 1: first call, 2: the call on the first result
    \* ---- composite handlers ----
    boards,                 \* store: board id -> [TeamID, Type]
    storeBlocks,            \* store: block id -> owning board id
    req,                    \* the request being handled
    pc,                     \* position of the handler
    status,                 \* HTTP status written (0: none yet)
    message,                \* error message written with the status
    permCalls,              \* calls made to the permission collaborator
    persistCalls,           \* calls made to the persistence collaborator
    auditRec,               \* outcome held by the request's audit record
    auditLog,               \* audit records emitted (deferred LogRecord)
    body,                   \* block list written as the response body
    \* ---- stampModificationMetadata ----
    stamp                   \* the call: arguments, locals and position

filterVars == <<input, blocks, queue, childrenOfBlockWithID, ret, fpc, pass>>
handlerVars == <<boards, storeBlocks, req, pc, status, message, permCalls,
                 persistCalls, auditRec, auditLog>>
vars == <<input, blocks, queue, childrenOfBlockWithID, ret, fpc, pass,
          boards, storeBlocks, req, pc, status, message, permCalls,
          persistCalls, auditRec, auditLog, body, stamp>>

Range(s) == {s[i] : i \in DOMAIN s}

SeqsUpTo(S, n) == UNION {[1..k -> S] : k \in 0..n}

Count(s, x) == Cardinality({i \in DOMAIN s : s[i] = x})

EmptyMap == [x \in {} |-> <<>>]

NoReq == [kind |-> "none"]

\* No call of stampModificationMetadata is running.
NoStamp == [pc |-> "idle"]

StampIdle == stamp = NoStamp

(***************************************************************************)
(* filterOrphanBlocks                                                      *)
(***************************************************************************)

\* Longest input list drawn for filterOrphanBlocks.
MaxLen == 3

\* The loop is followed for at most StepCap dequeues.  A run stopped by the
\* cap is a run the code never finishes (CapIsDivergence below).
StepCap == 4 * MaxLen

BlockIDs == {"a", "b", "c"}

ParentIDs == {""} \cup BlockIDs \cup {"z"}

\* model.Block, reduced to the two fields filterOrphanBlocks reads.
FilterBlock == [ID : BlockIDs, ParentID : ParentIDs]

\* BuildTrees with the sibling list overwritten instead of appended to.
RECURSIVE BuildTreesOverwrite(_, _, _, _)
BuildTreesOverwrite(bs, i, q, ch) ==
    IF i > Len(bs) THEN [queue |-> q, children |-> ch]
    ELSE LET block == bs[i] IN
         IF block.ParentID = ""
         THEN BuildTreesOverwrite(bs, i + 1, Append(q, block), ch)
         ELSE IF block.ParentID \in DOMAIN ch
              THEN BuildTreesOverwrite(bs, i + 1, q,
                       [ch EXCEPT ![block.ParentID] = <<block>>])
              ELSE BuildTreesOverwrite(bs, i + 1, q,
                       ch @@ (block.ParentID :> <<block>>))

\* BuildTrees with a block put in front of its siblings instead of behind.
RECURSIVE BuildTreesPrepend(_, _, _, _)
BuildTreesPrepend(bs, i, q, ch) ==
    IF i > Len(bs) THEN [queue |-> q, children |-> ch]
    ELSE LET block == bs[i] IN
         IF block.ParentID = ""
         THEN BuildTreesPrepend(bs, i + 1, Append(q, block), ch)
         ELSE IF block.ParentID \in DOMAIN ch
              THEN BuildTreesPrepend(bs, i + 1, q,
                       [ch EXCEPT ![block.ParentID] = <<block>> \o @])
              ELSE BuildTreesPrepend(bs, i + 1, q,
                       ch @@ (block.ParentID :> <<block>>))

\* The first for loop: roots go to the queue, every other block is appended
\* to the children list of its parent ID.
RECURSIVE BuildTrees(_, _, _, _)
BuildTrees(bs, i, q, ch) ==
    IF i > Len(bs) THEN [queue |-> q, children |-> ch]
    ELSE LET block == bs[i] IN
         IF block.ParentID = ""
         THEN BuildTrees(bs, i + 1, Append(q, block), ch)
         ELSE IF block.ParentID \in DOMAIN ch
              THEN BuildTrees(bs, i + 1, q,
                       [ch EXCEPT ![block.ParentID] = Append(@, block)])
              ELSE BuildTrees(bs, i + 1, q,
                       ch @@ (block.ParentID :> <<block>>))

\* childrenOfBlockWithID[id], nil read as the empty list.
ChildrenOf(ch, id) == IF id \in DOMAIN ch THEN ch[id] ELSE <<>>

FilterIdle ==
    /\ input = <<>>
    /\ blocks = <<>>
    /\ queue = <<>>
    /\ childrenOfBlockWithID = EmptyMap
    /\ ret = <<>>
    /\ fpc = "idle"
    /\ pass = 0

FilterInit ==
    /\ input \in SeqsUpTo(FilterBlock, MaxLen)
    /\ blocks = input
    /\ queue = <<>>
    /\ childrenOfBlockWithID = EmptyMap
    /\ ret = <<>>
    /\ fpc = "start"
    /\ pass = 1

\* Lines 1082-1102: the locals are made and the trees are built.
FilterBuild ==
    /\ fpc = "start"
    /\ LET t == BuildTrees(blocks, 1, <<>>, EmptyMap) IN
         /\ queue' = t.queue
         /\ childrenOfBlockWithID' = t.children
    /\ ret' = <<>>
    /\ fpc' = "loop"
    /\ UNCHANGED <<input, blocks, pass>>
    /\ UNCHANGED <<handlerVars, body, stamp>>

\* Lines 1103-1111: one iteration of `for len(queue) > 0`.
FilterStep ==
    /\ fpc = "loop"
    /\ Len(queue) > 0
    /\ Len(ret) < StepCap
    /\ LET block == Head(queue) IN
         /\ ret' = Append(ret, block)
         /\ queue' = Tail(queue) \o ChildrenOf(childrenOfBlockWithID, block.ID)
    /\ UNCHANGED <<input, blocks, childrenOfBlockWithID, fpc, pass>>
    /\ UNCHANGED <<handlerVars, body, stamp>>

\* Line 1113: the loop condition fails and the list is returned.
FilterReturn ==
    /\ fpc = "loop"
    /\ Len(queue) = 0
    /\ fpc' = "done"
    /\ UNCHANGED <<input, blocks, queue, childrenOfBlockWithID, ret, pass>>
    /\ UNCHANGED <<handlerVars, body, stamp>>

\* The caller passes the returned list to filterOrphanBlocks again.
FilterAgain ==
    /\ fpc = "done"
    /\ pass = 1
    /\ blocks' = ret
    /\ pass' = 2
    /\ fpc' = "start"
    /\ queue' = <<>>
    /\ childrenOfBlockWithID' = EmptyMap
    /\ ret' = <<>>
    /\ UNCHANGED input
    /\ UNCHANGED <<handlerVars, body, stamp>>

HandlerIdle ==
    /\ boards = EmptyMap
    /\ storeBlocks = EmptyMap
    /\ req = NoReq
    /\ pc = "idle"
    /\ status = 0
    /\ message = ""
    /\ permCalls = <<>>
    /\ persistCalls = <<>>
    /\ auditRec = "none"
    /\ auditLog = <<>>
    /\ body = <<>>

FilterNext == FilterBuild \/ FilterStep \/ FilterReturn \/ FilterAgain

FilterSpecInit == FilterInit /\ HandlerIdle /\ StampIdle

FilterSpec == FilterSpecInit /\ [][FilterNext]_vars

\* The call runs on its goroutine until it returns: every enabled step of
\* the function is eventually taken.
FairFilterSpec == FilterSpec /\ WF_vars(FilterNext)

(***************************************************************************)
(* Composite handlers: common parts                                        *)
(***************************************************************************)

Teams == {"", "T1", "T2"}

\* model.BoardTypeOpen, model.BoardTypePrivate, and a type that is neither.
BoardTypeOpen == "O"

BoardTypePrivate == "P"

BoardTypes == {BoardTypeOpen, BoardTypePrivate, "X"}

StatusOK == 200

StatusBadRequest == 400

StatusForbidden == 403

StatusInternalServerError == 500

\* An audit record made with outcome success.
MakeAuditRecordSuccess == "success"

\* a.makeAuditRecord(r, event, audit.Fail): the outcome of a new record.
MakeAuditRecord == "fail"

\* The response of a handler that ended in its checks: the status and
\* message given to errorResponse and the permission calls made so far.
\* status 0: every check passed, the handler goes on to persistence.
Outcome(st, msg, calls) == [status |-> st, message |-> msg, permCalls |-> calls]

PermCall(target, perm, granted) ==
    [target |-> target, perm |-> perm, granted |-> granted]

(***************************************************************************)
(* handleCreateBoardsAndBlocks                                             *)
(***************************************************************************)

\* Most boards and blocks in a drawn create bundle.
MaxBoards == 2

MaxBlocks == 1

\* A board of the bundle: client placeholder ID, team, visibility kind.
NewBoard == [ID : {"", "b1"}, TeamID : Teams, Type : BoardTypes]

\* A block of the bundle, with the fields the handler and the resolver read.
\* ModifiedBy is what the client wrote in the body: a user that is not the
\* actor of the request.
NewBlock == [ID : {"k1"}, BoardID : {"b1"}, ParentID : {""},
             Type : {"", "card"}, CreateAt : {0, 1}, UpdateAt : {0, 1},
             ModifiedBy : {"u2"}]

PermissionCreatePublicChannel == "create_public_channel"

PermissionCreatePrivateChannel == "create_private_channel"

\* The teams on which the drawn actor may hold team-level capabilities.
PermTeams == {"T1"}

\* A create request: the decoded body and what the permission collaborator
\* answers for the actor.
CreateRequests ==
    [kind : {"create"},
     boards : SeqsUpTo(NewBoard, MaxBoards),
     blocks : SeqsUpTo(NewBlock, MaxBlocks),
     perms : SUBSET (PermTeams \X {PermissionCreatePublicChannel,
                                   PermissionCreatePrivateChannel})]

\* HasPermissionToTeam asked without regard to the team.
HasPermissionOnSomeTeam(r, teamID, perm) ==
    \E t \in PermTeams : <<t, perm>> \in r.perms

\* a.permissions.HasPermissionToTeam(userID, teamID, permission)
HasPermissionToTeam(r, teamID, perm) == <<teamID, perm>> \in r.perms

\* The error checking of one block without the test of UpdateAt.
BlockErrorNoUpdateAt(block) ==
    IF block.Type = "" THEN "missing type"
    ELSE IF block.CreateAt < 1 THEN "invalid createAt"
    ELSE ""

\* Lines 2592-2608: the error checking of one block, "" when it passes.
BlockError(block) ==
    IF block.Type = "" THEN "missing type"
    ELSE IF block.CreateAt < 1 THEN "invalid createAt"
    ELSE IF block.UpdateAt < 1 THEN "invalid UpdateAt"
    ELSE ""

\* Lines 2590-2609: the loop over the blocks returns at the first error.
RECURSIVE CheckBlocks(_, _)
CheckBlocks(bs, i) ==
    IF i > Len(bs) THEN ""
    ELSE IF BlockError(bs[i]) # "" THEN BlockError(bs[i])
    ELSE CheckBlocks(bs, i + 1)

\* Lines 2612-2639: the loop over the boards.  While teamID is still "" the
\* board's team is taken and the rest of the body is skipped (continue).
RECURSIVE CheckBoards(_, _, _, _, _)
CheckBoards(bs, i, pub, priv, teamID) ==
    IF i > Len(bs)
    THEN [err |-> "", createsPublicBoards |-> pub,
          createsPrivateBoards |-> priv, teamID |-> teamID]
    ELSE LET board == bs[i]
             pub2 == pub \/ board.Type = BoardTypeOpen
             priv2 == priv \/ board.Type = BoardTypePrivate
         IN IF teamID = ""
            THEN CheckBoards(bs, i + 1, pub2, priv2, board.TeamID)
            ELSE IF teamID # board.TeamID
            THEN [err |-> "cannot create boards for multiple teams",
                  createsPublicBoards |-> pub2,
                  createsPrivateBoards |-> priv2, teamID |-> teamID]
            ELSE IF board.ID = ""
            THEN [err |-> "boards need an ID to be referenced from the blocks",
                  createsPublicBoards |-> pub2,
                  createsPrivateBoards |-> priv2, teamID |-> teamID]
            ELSE CheckBoards(bs, i + 1, pub2, priv2, teamID)

\* Server identifiers handed out by the identifier generator, by position.
NewBoardID(i) == "NB" \o ToString(i)

NewBlockID(i) == "NK" \o ToString(i)

\* model.GenerateBoardsAndBlocksIDs: fails when a block names a board
\* placeholder that no board of the bundle carries; otherwise every board
\* and block gets a fresh identifier and each block's BoardID is rewritten
\* to the new identifier of the board it named.
GenerateBoardsAndBlocksIDs(bab) ==
    LET known == {bab.boards[i].ID : i \in DOMAIN bab.boards}
        newOf(p) == NewBoardID(CHOOSE i \in DOMAIN bab.boards :
                                   /\ bab.boards[i].ID = p
                                   /\ \A j \in DOMAIN bab.boards :
                                          bab.boards[j].ID = p => i <= j)
    IN IF \E k \in DOMAIN bab.blocks : bab.blocks[k].BoardID \notin known
       THEN [ok |-> FALSE, boards |-> <<>>, blocks |-> <<>>]
       ELSE [ok |-> TRUE,
             boards |-> [i \in DOMAIN bab.boards |->
                            [bab.boards[i] EXCEPT !.ID = NewBoardID(i)]],
             blocks |-> [k \in DOMAIN bab.blocks |->
                            [bab.blocks[k] EXCEPT
                                !.ID = NewBlockID(k),
                                !.BoardID = newOf(bab.blocks[k].BoardID)]]]

\* The checks of handleCreateBoardsAndBlocks with the permission gate moved
\* before the identifier resolver.
CreateChecksGateFirst(r) ==
    LET blockErr == CheckBlocks(r.blocks, 1)
        b == CheckBoards(r.boards, 1, FALSE, FALSE, "")
        gen == GenerateBoardsAndBlocksIDs(r)
        pubCall == PermCall(b.teamID, PermissionCreatePublicChannel,
                       HasPermissionToTeam(r, b.teamID,
                                           PermissionCreatePublicChannel))
        privCall == PermCall(b.teamID, PermissionCreatePrivateChannel,
                        HasPermissionToTeam(r, b.teamID,
                                            PermissionCreatePrivateChannel))
        pubCalls == IF b.createsPublicBoards THEN <<pubCall>> ELSE <<>>
        privCalls == IF b.createsPrivateBoards THEN <<privCall>> ELSE <<>>
    IN IF blockErr # "" THEN Outcome(StatusBadRequest, blockErr, <<>>)
       ELSE IF b.err # "" THEN Outcome(StatusBadRequest, b.err, <<>>)
       ELSE IF b.createsPublicBoards /\ ~pubCall.granted
       THEN Outcome(StatusForbidden, "", pubCalls)
       ELSE IF b.createsPrivateBoards /\ ~privCall.granted
       THEN Outcome(StatusForbidden, "", pubCalls \o privCalls)
       ELSE IF ~gen.ok THEN Outcome(StatusBadRequest, "", pubCalls \o privCalls)
       ELSE Outcome(0, "", pubCalls \o privCalls)

\* Lines 2590-2657: everything handleCreateBoardsAndBlocks does before it
\* makes its audit record, in the order of the code.
CreateChecks(r) ==
    LET blockErr == CheckBlocks(r.blocks, 1)
        b == CheckBoards(r.boards, 1, FALSE, FALSE, "")
        gen == GenerateBoardsAndBlocksIDs(r)
        pubCall == PermCall(b.teamID, PermissionCreatePublicChannel,
                       HasPermissionToTeam(r, b.teamID,
                                           PermissionCreatePublicChannel))
        privCall == PermCall(b.teamID, PermissionCreatePrivateChannel,
                        HasPermissionToTeam(r, b.teamID,
                                            PermissionCreatePrivateChannel))
        pubCalls == IF b.createsPublicBoards THEN <<pubCall>> ELSE <<>>
        privCalls == IF b.createsPrivateBoards THEN <<privCall>> ELSE <<>>
    IN IF blockErr # "" THEN Outcome(StatusBadRequest, blockErr, <<>>)
       ELSE IF b.err # "" THEN Outcome(StatusBadRequest, b.err, <<>>)
       ELSE IF ~gen.ok THEN Outcome(StatusBadRequest, "", <<>>)
       ELSE IF b.createsPublicBoards /\ ~pubCall.granted
       THEN Outcome(StatusForbidden, "", pubCalls)
       ELSE IF b.createsPrivateBoards /\ ~privCall.granted
       THEN Outcome(StatusForbidden, "", pubCalls \o privCalls)
       ELSE Outcome(0, "", pubCalls \o privCalls)

\* The request arrives and its body is decoded (lines 2576-2588).
CreateReceive ==
    /\ pc = "idle"
    /\ req' \in CreateRequests
    /\ pc' = "check"
    /\ UNCHANGED <<boards, storeBlocks, status, message, permCalls,
                   persistCalls, auditRec, auditLog>>
    /\ UNCHANGED <<filterVars, body, stamp>>

\* Lines 2590-2657: a check fails and the handler returns its error.
CreateReject ==
    /\ pc = "check"
    /\ req.kind = "create"
    /\ LET o == CreateChecks(req) IN
         /\ o.status # 0
         /\ status' = o.status
         /\ message' = o.message
         /\ permCalls' = o.permCalls
    /\ pc' = "done"
    /\ UNCHANGED <<boards, storeBlocks, req, persistCalls, auditRec, auditLog>>
    /\ UNCHANGED <<filterVars, body, stamp>>

\* Lines 2590-2664: every check passes; the audit record is made with
\* outcome failure and the handler is about to call the persistence layer.
CreateAccept ==
    /\ pc = "check"
    /\ req.kind = "create"
    /\ LET o == CreateChecks(req) IN
         /\ o.status = 0
         /\ permCalls' = o.permCalls
    /\ auditRec' = MakeAuditRecord
    /\ pc' = "persist"
    /\ UNCHANGED <<boards, storeBlocks, req, status, message, persistCalls,
                   auditLog>>
    /\ UNCHANGED <<filterVars, body, stamp>>

\* The decoded bundle handed to CreateBoardsAndBlocks as it arrived, without
\* the result of the identifier resolver.
CreateCallUnresolved(r) ==
    [op |-> "CreateBoardsAndBlocks", boards |-> r.boards, blocks |-> r.blocks,
     err |-> FALSE]

\* Lines 2643 and 2667: newBab is replaced by the resolver's result, and that
\* is the bundle handed to a.app.CreateBoardsAndBlocks.  err: whether the
\* call returned an error.
CreateCall(r) ==
    LET gen == GenerateBoardsAndBlocksIDs(r) IN
    [op |-> "CreateBoardsAndBlocks", boards |-> gen.boards,
     blocks |-> gen.blocks, err |-> FALSE]

\* The boards in the store after a.app.CreateBoardsAndBlocks has stored the
\* boards of the call.
BoardsAfterCreate(call) ==
    boards @@
        [id \in {call.boards[i].ID : i \in DOMAIN call.boards} |->
            LET i == CHOOSE i \in DOMAIN call.boards : call.boards[i].ID = id
            IN [TeamID |-> call.boards[i].TeamID,
                Type |-> call.boards[i].Type]]

\* The blocks in the store after a.app.CreateBoardsAndBlocks has stored the
\* blocks of the call.
BlocksAfterCreate(call) ==
    storeBlocks @@
        [id \in {call.blocks[k].ID : k \in DOMAIN call.blocks} |->
            LET k == CHOOSE k \in DOMAIN call.blocks : call.blocks[k].ID = id
            IN call.blocks[k].BoardID]

\* Lines 2667-2689: CreateBoardsAndBlocks succeeds: the boards and blocks
\* are stored, 200 is written and the audit record is set to success.
CreatePersist ==
    /\ pc = "persist"
    /\ req.kind = "create"
    /\ LET call == CreateCall(req) IN
         /\ persistCalls' = Append(persistCalls, call)
         /\ boards' = BoardsAfterCreate(call)
         /\ storeBlocks' = BlocksAfterCreate(call)
    /\ status' = StatusOK
    /\ auditRec' = "success"
    /\ auditLog' = Append(auditLog, "success")
    /\ pc' = "done"
    /\ UNCHANGED <<req, message, permCalls>>
    /\ UNCHANGED <<filterVars, body, stamp>>

\* CreateBoardsAndBlocks returns an error after it has stored the boards of
\* the bundle.
CreatePersistFailsKeepsBoards ==
    /\ pc = "persist"
    /\ req.kind = "create"
    /\ persistCalls' = Append(persistCalls,
                              [CreateCall(req) EXCEPT !.err = TRUE])
    /\ boards' = BoardsAfterCreate(CreateCall(req))
    /\ status' = StatusInternalServerError
    /\ auditLog' = Append(auditLog, auditRec)
    /\ pc' = "done"
    /\ UNCHANGED <<storeBlocks, req, message, permCalls, auditRec>>
    /\ UNCHANGED <<filterVars, body, stamp>>

\* Lines 2667-2671: CreateBoardsAndBlocks returns an error: 500 is written,
\* nothing is stored and the audit record is logged as it is.
CreatePersistFails ==
    /\ pc = "persist"
    /\ req.kind = "create"
    /\ persistCalls' = Append(persistCalls,
                              [CreateCall(req) EXCEPT !.err = TRUE])
    /\ status' = StatusInternalServerError
    /\ auditLog' = Append(auditLog, auditRec)
    /\ pc' = "done"
    /\ UNCHANGED <<boards, storeBlocks, req, message, permCalls, auditRec>>
    /\ UNCHANGED <<filterVars, body, stamp>>

\* Lines 2667-2684: CreateBoardsAndBlocks succeeds but json.Marshal of the
\* created bundle fails: the bundle is stored, 500 is written and the audit
\* record is logged as it is.
CreateMarshalFails ==
    /\ pc = "persist"
    /\ req.kind = "create"
    /\ LET call == CreateCall(req) IN
         /\ persistCalls' = Append(persistCalls, call)
         /\ boards' = BoardsAfterCreate(call)
         /\ storeBlocks' = BlocksAfterCreate(call)
    /\ status' = StatusInternalServerError
    /\ auditLog' = Append(auditLog, auditRec)
    /\ pc' = "done"
    /\ UNCHANGED <<req, message, permCalls, auditRec>>
    /\ UNCHANGED <<filterVars, body, stamp>>

CreateNext ==
    \/ CreateReceive
    \/ CreateReject
    \/ CreateAccept
    \/ CreatePersist
    \/ CreatePersistFails
    \/ CreateMarshalFails

CreateSpecInit == FilterIdle /\ HandlerIdle /\ StampIdle

CreateSpec == CreateSpecInit /\ [][CreateNext]_vars

(***************************************************************************)
(* The store handlePatchBoardsAndBlocks and handleDeleteBoardsAndBlocks    *)
(* read: boards and blocks that earlier creates have stored.  Nothing in   *)
(* handleCreateBoardsAndBlocks asks a board for a non-empty TeamID, so a   *)
(* stored board may carry the empty team (CreateStoresEmptyTeam).          *)
(***************************************************************************)

StoredBoards ==
    ("B0" :> [TeamID |-> "", Type |-> "X"]) @@
    ("B1" :> [TeamID |-> "T1", Type |-> "O"]) @@
    ("B2" :> [TeamID |-> "T2", Type |-> "P"])

StoredBlocks == ("K1" :> "B1")

\* The identifiers a patch or delete request may name; B9 and K9 are in no
\* store.
TargetBoardIDs == {"B0", "B1", "B2", "B9"}

TargetBlockIDs == {"K1", "K9"}

StoreInit ==
    /\ boards = StoredBoards
    /\ storeBlocks = StoredBlocks
    /\ req = NoReq
    /\ pc = "idle"
    /\ status = 0
    /\ message = ""
    /\ permCalls = <<>>
    /\ persistCalls = <<>>
    /\ auditRec = "none"
    /\ auditLog = <<>>
    /\ body = <<>>

\* a.permissions.HasPermissionToBoard(userID, boardID, permission)
HasPermissionToBoard(r, boardID, perm) == <<boardID, perm>> \in r.perms

\* The nil a store read returns for what is not stored.
Nil == [nil |-> TRUE]

\* a.app.GetBoard(boardID): nil for a board that is not stored.
GetBoard(boardID) ==
    IF boardID \in DOMAIN boards THEN boards[boardID] ELSE Nil

\* a.app.GetBlockWithID(blockID): nil for a block that is not stored.
GetBlockWithID(blockID) ==
    IF blockID \in DOMAIN storeBlocks
    THEN [BoardID |-> storeBlocks[blockID]] ELSE Nil

(***************************************************************************)
(* handlePatchBoardsAndBlocks                                              *)
(***************************************************************************)

\* Most board and block identifiers in a drawn patch set.
MaxPatchBoards == 2

MaxPatchBlocks == 1

PermissionManageBoardProperties == "manage_board_properties"

PermissionManageBoardType == "manage_board_type"

\* A board patch, reduced to its Type field: nil (not set), a board type,
\* or a value that is no board type.
NilType == "nil"

BoardPatch == [Type : {NilType, BoardTypeOpen, "?"}]

\* A patch request: the decoded body, what the permission collaborator
\* answers for the actor on the targeted boards, and whether the reads of
\* the store return an error ("down") or succeed ("none").
PatchRequests ==
    UNION {[kind : {"patch"},
            BoardIDs : {ids},
            BoardPatches : SeqsUpTo(BoardPatch, MaxPatchBoards),
            BlockIDs : SeqsUpTo(TargetBlockIDs, MaxPatchBlocks),
            BlockPatches : 0..MaxPatchBlocks,
            perms : SUBSET (Range(ids) \X {PermissionManageBoardProperties,
                                           PermissionManageBoardType}),
            storeErr : {"none", "down"}]
           : ids \in SeqsUpTo(TargetBoardIDs, MaxPatchBoards)}

\* model.PatchBoardsAndBlocks.IsValid: the identifier and patch lists match
\* in length.
PatchSetIsValid(r) ==
    /\ Len(r.BoardIDs) = Len(r.BoardPatches)
    /\ Len(r.BlockIDs) = r.BlockPatches

\* model.BoardPatch.IsValid: a type, when set, is a board type.
BoardPatchIsValid(patch) ==
    patch.Type \in {NilType, BoardTypeOpen, BoardTypePrivate}

\* PatchBoards without the manage-board-type check.
RECURSIVE PatchBoardsNoTypeCheck(_, _, _, _)
PatchBoardsNoTypeCheck(r, i, teamID, calls) ==
    IF i > Len(r.BoardIDs) THEN Outcome(0, "", calls)
    ELSE LET boardID == r.BoardIDs[i]
             patch == r.BoardPatches[i]
             propsCall == PermCall(boardID, PermissionManageBoardProperties,
                              HasPermissionToBoard(r, boardID,
                                  PermissionManageBoardProperties))
             calls1 == Append(calls, propsCall)
             board == GetBoard(boardID)
             teamID2 == IF teamID = "" THEN board.TeamID ELSE teamID
         IN IF ~BoardPatchIsValid(patch)
            THEN Outcome(StatusBadRequest, "", calls)
            ELSE IF ~propsCall.granted
            THEN Outcome(StatusForbidden, "", calls1)
            ELSE IF r.storeErr = "down"
            THEN Outcome(StatusInternalServerError, "", calls1)
            ELSE IF board = Nil
            THEN Outcome(StatusBadRequest, "", calls1)
            ELSE IF teamID2 # board.TeamID
            THEN Outcome(StatusBadRequest, "", calls1)
            ELSE PatchBoardsNoTypeCheck(r, i + 1, teamID2, calls1)

\* Lines 2740-2778: the loop over the targeted boards, from board i on.
RECURSIVE PatchBoards(_, _, _, _)
PatchBoards(r, i, teamID, calls) ==
    IF i > Len(r.BoardIDs) THEN Outcome(0, "", calls)
    ELSE LET boardID == r.BoardIDs[i]
             patch == r.BoardPatches[i]
             propsCall == PermCall(boardID, PermissionManageBoardProperties,
                              HasPermissionToBoard(r, boardID,
                                  PermissionManageBoardProperties))
             typeCall == PermCall(boardID, PermissionManageBoardType,
                             HasPermissionToBoard(r, boardID,
                                 PermissionManageBoardType))
             calls1 == Append(calls, propsCall)
             calls2 == IF patch.Type # NilType
                       THEN Append(calls1, typeCall) ELSE calls1
             board == GetBoard(boardID)
             teamID2 == IF teamID = "" THEN board.TeamID ELSE teamID
         IN IF ~BoardPatchIsValid(patch)
            THEN Outcome(StatusBadRequest, "", calls)
            ELSE IF ~propsCall.granted
            THEN Outcome(StatusForbidden, "", calls1)
            ELSE IF patch.Type # NilType /\ ~typeCall.granted
            THEN Outcome(StatusForbidden, "", calls2)
            ELSE IF r.storeErr = "down"
            THEN Outcome(StatusInternalServerError, "", calls2)
            ELSE IF board = Nil
            THEN Outcome(StatusBadRequest, "", calls2)
            ELSE IF teamID2 # board.TeamID
            THEN Outcome(StatusBadRequest, "", calls2)
            ELSE PatchBoards(r, i + 1, teamID2, calls2)

\* PatchBlocks without the test that the block's board is targeted.
RECURSIVE PatchBlocksAnyBoard(_, _, _)
PatchBlocksAnyBoard(r, k, calls) ==
    IF k > Len(r.BlockIDs) THEN Outcome(0, "", calls)
    ELSE LET block == GetBlockWithID(r.BlockIDs[k])
         IN IF r.storeErr = "down"
            THEN Outcome(StatusInternalServerError, "", calls)
            ELSE IF block = Nil
            THEN Outcome(StatusBadRequest, "", calls)
            ELSE PatchBlocksAnyBoard(r, k + 1, calls)

\* Lines 2780-2795: the loop over the targeted blocks, from block k on;
\* boardIDMap holds every identifier of BoardIDs.
RECURSIVE PatchBlocks(_, _, _)
PatchBlocks(r, k, calls) ==
    IF k > Len(r.BlockIDs) THEN Outcome(0, "", calls)
    ELSE LET block == GetBlockWithID(r.BlockIDs[k])
             boardIDMap == Range(r.BoardIDs)
         IN IF r.storeErr = "down"
            THEN Outcome(StatusInternalServerError, "", calls)
            ELSE IF block = Nil
            THEN Outcome(StatusBadRequest, "", calls)
            ELSE IF block.BoardID \notin boardIDMap
            THEN Outcome(StatusBadRequest, "", calls)
            ELSE PatchBlocks(r, k + 1, calls)

\* Lines 2733-2795: everything handlePatchBoardsAndBlocks does before it
\* makes its audit record, in the order of the code.
PatchChecks(r) ==
    IF ~PatchSetIsValid(r) THEN Outcome(StatusBadRequest, "", <<>>)
    ELSE LET b == PatchBoards(r, 1, "", <<>>) IN
         IF b.status # 0 THEN b
         ELSE PatchBlocks(r, 1, b.permCalls)

\* The request arrives and its body is decoded (lines 2719-2731).
PatchReceive ==
    /\ pc = "idle"
    /\ req' \in PatchRequests
    /\ pc' = "check"
    /\ UNCHANGED <<boards, storeBlocks, status, message, permCalls,
                   persistCalls, auditRec, auditLog>>
    /\ UNCHANGED <<filterVars, body, stamp>>

\* Lines 2733-2795: a check fails and the handler returns its error.
PatchReject ==
    /\ pc = "check"
    /\ req.kind = "patch"
    /\ LET o == PatchChecks(req) IN
         /\ o.status # 0
         /\ status' = o.status
         /\ message' = o.message
         /\ permCalls' = o.permCalls
    /\ pc' = "done"
    /\ UNCHANGED <<boards, storeBlocks, req, persistCalls, auditRec, auditLog>>
    /\ UNCHANGED <<filterVars, body, stamp>>

\* Lines 2733-2800: every check passes; the audit record is made with
\* outcome failure and the handler is about to call the persistence layer.
PatchAccept ==
    /\ pc = "check"
    /\ req.kind = "patch"
    /\ LET o == PatchChecks(req) IN
         /\ o.status = 0
         /\ permCalls' = o.permCalls
    /\ auditRec' = MakeAuditRecord
    /\ pc' = "persist"
    /\ UNCHANGED <<boards, storeBlocks, req, status, message, persistCalls,
                   auditLog>>
    /\ UNCHANGED <<filterVars, body, stamp>>

\* The patch set handed to a.app.PatchBoardsAndBlocks (line 2802).
PatchCall(r) ==
    [op |-> "PatchBoardsAndBlocks", BoardIDs |-> r.BoardIDs,
     BoardPatches |-> r.BoardPatches, BlockIDs |-> r.BlockIDs,
     err |-> FALSE]

\* The boards in the store after a.app.PatchBoardsAndBlocks has applied the
\* board patches of r: a set Type replaces the board's.
BoardsAfterPatch(r) ==
    [id \in DOMAIN boards |->
        IF \E i \in DOMAIN r.BoardIDs :
               /\ r.BoardIDs[i] = id
               /\ r.BoardPatches[i].Type # NilType
        THEN [boards[id] EXCEPT !.Type =
                 r.BoardPatches[
                     CHOOSE i \in DOMAIN r.BoardIDs :
                         /\ r.BoardIDs[i] = id
                         /\ r.BoardPatches[i].Type # NilType
                         /\ \A j \in DOMAIN r.BoardIDs :
                               (/\ r.BoardIDs[j] = id
                                /\ r.BoardPatches[j].Type
                                       # NilType) => j <= i
                 ].Type]
        ELSE boards[id]]

\* Lines 2802-2822: PatchBoardsAndBlocks succeeds: the patches are applied
\* (a set Type replaces the board's), 200 is written and the audit record
\* is set to success.
PatchPersist ==
    /\ pc = "persist"
    /\ req.kind = "patch"
    /\ persistCalls' = Append(persistCalls, PatchCall(req))
    /\ boards' = BoardsAfterPatch(req)
    /\ status' = StatusOK
    /\ auditRec' = "success"
    /\ auditLog' = Append(auditLog, "success")
    /\ pc' = "done"
    /\ UNCHANGED <<storeBlocks, req, message, permCalls>>
    /\ UNCHANGED <<filterVars, body, stamp>>

\* Lines 2802-2806: PatchBoardsAndBlocks returns an error.
PatchPersistFails ==
    /\ pc = "persist"
    /\ req.kind = "patch"
    /\ persistCalls' = Append(persistCalls,
                              [PatchCall(req) EXCEPT !.err = TRUE])
    /\ status' = StatusInternalServerError
    /\ auditLog' = Append(auditLog, auditRec)
    /\ pc' = "done"
    /\ UNCHANGED <<boards, storeBlocks, req, message, permCalls, auditRec>>
    /\ UNCHANGED <<filterVars, body, stamp>>

\* Lines 2802-2817: PatchBoardsAndBlocks succeeds but json.Marshal of the
\* patched bundle fails: the patches are applied, 500 is written and the
\* audit record is logged as it is.
PatchMarshalFails ==
    /\ pc = "persist"
    /\ req.kind = "patch"
    /\ persistCalls' = Append(persistCalls, PatchCall(req))
    /\ boards' = BoardsAfterPatch(req)
    /\ status' = StatusInternalServerError
    /\ auditLog' = Append(auditLog, auditRec)
    /\ pc' = "done"
    /\ UNCHANGED <<storeBlocks, req, message, permCalls, auditRec>>
    /\ UNCHANGED <<filterVars, body, stamp>>

PatchNext ==
    \/ PatchReceive
    \/ PatchReject
    \/ PatchAccept
    \/ PatchPersist
    \/ PatchPersistFails
    \/ PatchMarshalFails

PatchSpecInit == FilterIdle /\ StoreInit /\ StampIdle

PatchSpec == PatchSpecInit /\ [][PatchNext]_vars

(***************************************************************************)
(* handleDeleteBoardsAndBlocks                                             *)
(***************************************************************************)

\* Most board and block identifiers in a drawn delete set.
MaxDeleteBoards == 2

MaxDeleteBlocks == 1

PermissionDeleteBoard == "delete_board"

\* A delete request: the decoded body, what the permission collaborator
\* answers for the actor on the targeted boards, and whether the reads of
\* the store return an error ("down") or succeed ("none").
DeleteRequests ==
    UNION {[kind : {"delete"},
            Boards : {ids},
            Blocks : SeqsUpTo(TargetBlockIDs, MaxDeleteBlocks),
            perms : SUBSET (Range(ids) \X {PermissionDeleteBoard}),
            storeErr : {"none", "down"}]
           : ids \in SeqsUpTo(TargetBoardIDs, MaxDeleteBoards)}

\* model.DeleteBoardsAndBlocks.IsValid: both identifier lists are non-empty.
DeleteSetIsValid(r) == Len(r.Boards) > 0 /\ Len(r.Blocks) > 0

\* The loop over the targeted boards going on to the next board after the
\* delete permission was refused.
RECURSIVE DeleteBoardsIgnoresDenial(_, _, _, _)
DeleteBoardsIgnoresDenial(r, i, teamID, calls) ==
    IF i > Len(r.Boards) THEN Outcome(0, "", calls)
    ELSE LET boardID == r.Boards[i]
             board == GetBoard(boardID)
             teamID2 == IF teamID = "" THEN board.TeamID ELSE teamID
             delCall == PermCall(boardID, PermissionDeleteBoard,
                            HasPermissionToBoard(r, boardID,
                                                 PermissionDeleteBoard))
         IN IF r.storeErr = "down"
            THEN Outcome(StatusInternalServerError, "", calls)
            ELSE IF board = Nil
            THEN Outcome(StatusBadRequest, "", calls)
            ELSE IF teamID2 # board.TeamID
            THEN Outcome(StatusBadRequest, "", calls)
            ELSE DeleteBoardsIgnoresDenial(r, i + 1, teamID2,
                                           Append(calls, delCall))

\* The loop over the targeted boards asking for the delete permission on the
\* first board only.
RECURSIVE DeleteBoardsFirstOnly(_, _, _, _)
DeleteBoardsFirstOnly(r, i, teamID, calls) ==
    IF i > Len(r.Boards) THEN Outcome(0, "", calls)
    ELSE LET boardID == r.Boards[i]
             board == GetBoard(boardID)
             teamID2 == IF teamID = "" THEN board.TeamID ELSE teamID
             delCall == PermCall(boardID, PermissionDeleteBoard,
                            HasPermissionToBoard(r, boardID,
                                                 PermissionDeleteBoard))
         IN IF r.storeErr = "down"
            THEN Outcome(StatusInternalServerError, "", calls)
            ELSE IF board = Nil
            THEN Outcome(StatusBadRequest, "", calls)
            ELSE IF teamID2 # board.TeamID
            THEN Outcome(StatusBadRequest, "", calls)
            ELSE IF i = 1 /\ ~delCall.granted
            THEN Outcome(StatusForbidden, "", Append(calls, delCall))
            ELSE DeleteBoardsFirstOnly(r, i + 1, teamID2, Append(calls, delCall))

\* Lines 2866-2891: the loop over the targeted boards, from board i on.
RECURSIVE DeleteBoards(_, _, _, _)
DeleteBoards(r, i, teamID, calls) ==
    IF i > Len(r.Boards) THEN Outcome(0, "", calls)
    ELSE LET boardID == r.Boards[i]
             board == GetBoard(boardID)
             teamID2 == IF teamID = "" THEN board.TeamID ELSE teamID
             delCall == PermCall(boardID, PermissionDeleteBoard,
                            HasPermissionToBoard(r, boardID,
                                                 PermissionDeleteBoard))
         IN IF r.storeErr = "down"
            THEN Outcome(StatusInternalServerError, "", calls)
            ELSE IF board = Nil
            THEN Outcome(StatusBadRequest, "", calls)
            ELSE IF teamID2 # board.TeamID
            THEN Outcome(StatusBadRequest, "", calls)
            ELSE IF ~delCall.granted
            THEN Outcome(StatusForbidden, "", Append(calls, delCall))
            ELSE DeleteBoards(r, i + 1, teamID2, Append(calls, delCall))

\* Lines 2866-2896: everything handleDeleteBoardsAndBlocks does before it
\* makes its audit record, in the order of the code.
DeleteChecks(r) ==
    LET b == DeleteBoards(r, 1, "", <<>>) IN
    IF b.status # 0 THEN b
    ELSE IF ~DeleteSetIsValid(r)
    THEN Outcome(StatusBadRequest, "", b.permCalls)
    ELSE b

\* The request arrives and its body is decoded (lines 2850-2862).
DeleteReceive ==
    /\ pc = "idle"
    /\ req' \in DeleteRequests
    /\ pc' = "check"
    /\ UNCHANGED <<boards, storeBlocks, status, message, permCalls,
                   persistCalls, auditRec, auditLog>>
    /\ UNCHANGED <<filterVars, body, stamp>>

\* Lines 2866-2896: a check fails and the handler returns its error.
DeleteReject ==
    /\ pc = "check"
    /\ req.kind = "delete"
    /\ LET o == DeleteChecks(req) IN
         /\ o.status # 0
         /\ status' = o.status
         /\ message' = o.message
         /\ permCalls' = o.permCalls
    /\ pc' = "done"
    /\ UNCHANGED <<boards, storeBlocks, req, persistCalls, auditRec, auditLog>>
    /\ UNCHANGED <<filterVars, body, stamp>>

\* Lines 2866-2901: every check passes; the audit record is made with
\* outcome failure and the handler is about to call the persistence layer.
DeleteAccept ==
    /\ pc = "check"
    /\ req.kind = "delete"
    /\ LET o == DeleteChecks(req) IN
         /\ o.status = 0
         /\ permCalls' = o.permCalls
    /\ auditRec' = MakeAuditRecord
    /\ pc' = "persist"
    /\ UNCHANGED <<boards, storeBlocks, req, status, message, persistCalls,
                   auditLog>>
    /\ UNCHANGED <<filterVars, body, stamp>>

\* The delete set handed to a.app.DeleteBoardsAndBlocks (line 2903).
DeleteCall(r) ==
    [op |-> "DeleteBoardsAndBlocks", Boards |-> r.Boards, Blocks |-> r.Blocks,
     err |-> FALSE]

\* The boards in the store after a.app.DeleteBoardsAndBlocks has removed the
\* boards of r.
BoardsAfterDelete(r) ==
    [id \in DOMAIN boards \ Range(r.Boards) |-> boards[id]]

\* The blocks in the store after a.app.DeleteBoardsAndBlocks has removed the
\* blocks of r and the blocks of its boards.
BlocksAfterDelete(r) ==
    [id \in {k \in DOMAIN storeBlocks :
                 /\ k \notin Range(r.Blocks)
                 /\ storeBlocks[k] \notin Range(r.Boards)}
        |-> storeBlocks[id]]

\* Lines 2903-2916: DeleteBoardsAndBlocks succeeds: the boards, their blocks
\* and the listed blocks are removed, 200 is written and the audit record is
\* set to success.
DeletePersist ==
    /\ pc = "persist"
    /\ req.kind = "delete"
    /\ persistCalls' = Append(persistCalls, DeleteCall(req))
    /\ boards' = BoardsAfterDelete(req)
    /\ storeBlocks' = BlocksAfterDelete(req)
    /\ status' = StatusOK
    /\ auditRec' = "success"
    /\ auditLog' = Append(auditLog, "success")
    /\ pc' = "done"
    /\ UNCHANGED <<req, message, permCalls>>
    /\ UNCHANGED <<filterVars, body, stamp>>

\* Lines 2903-2906: DeleteBoardsAndBlocks returns an error.
DeletePersistFails ==
    /\ pc = "persist"
    /\ req.kind = "delete"
    /\ persistCalls' = Append(persistCalls,
                              [DeleteCall(req) EXCEPT !.err = TRUE])
    /\ status' = StatusInternalServerError
    /\ auditLog' = Append(auditLog, auditRec)
    /\ pc' = "done"
    /\ UNCHANGED <<boards, storeBlocks, req, message, permCalls, auditRec>>
    /\ UNCHANGED <<filterVars, body, stamp>>

DeleteNext ==
    \/ DeleteReceive
    \/ DeleteReject
    \/ DeleteAccept
    \/ DeletePersist
    \/ DeletePersistFails

DeleteSpecInit == FilterIdle /\ StoreInit /\ StampIdle

DeleteSpec == DeleteSpecInit /\ [][DeleteNext]_vars

(***************************************************************************)
(* The three composite handlers over one store: a request of any of the    *)
(* three kinds arrives and is handled.                                     *)
(***************************************************************************)

MutationNext == CreateNext \/ PatchNext \/ DeleteNext

MutationSpecInit == FilterIdle /\ StoreInit /\ StampIdle

MutationSpec == MutationSpecInit /\ [][MutationNext]_vars

(***************************************************************************)
(* A composite patch with concurrent requests                              *)
(***************************************************************************)

\* The delete requests of other sessions: each by an actor who holds
\* delete-board on every board it names, with the store answering.
OtherDeleteRequests ==
    {r \in DeleteRequests :
        /\ r.storeErr = "none"
        /\ r.perms = Range(r.Boards) \X {PermissionDeleteBoard}}

\* Another request, handled on its own goroutine while the patch is being
\* handled (between the decoding of the patch set and its persistence
\* call): a composite delete that passes its checks against the store as it
\* is now and whose DeleteBoardsAndBlocks succeeds.  Only its effect on the
\* store is kept; its response and audit record belong to the other request.
OtherDelete ==
    /\ pc \in {"check", "persist"}
    /\ \E r \in OtherDeleteRequests :
         /\ DeleteChecks(r).status = 0
         /\ boards' = BoardsAfterDelete(r)
         /\ storeBlocks' = BlocksAfterDelete(r)
    /\ UNCHANGED <<req, pc, status, message, permCalls, persistCalls,
                   auditRec, auditLog>>
    /\ UNCHANGED <<filterVars, body, stamp>>

ConcurrentNext == PatchNext \/ OtherDelete

ConcurrentSpecInit == FilterIdle /\ StoreInit /\ StampIdle

ConcurrentSpec == ConcurrentSpecInit /\ [][ConcurrentNext]_vars

(***************************************************************************)
(* stampModificationMetadata                                               *)
(***************************************************************************)

\* Longest batch drawn for stampModificationMetadata.
MaxStamp == 2

\* The user ID of the single-user mode (line 28).
SingleUser == "single-user"

\* What getUserID(r) can return for the request.
Actors == {SingleUser, "u1"}

\* A block of the batch, with the fields the stamper writes.
StampBlock == [ModifiedBy : {"", SingleUser, "u2"}, UpdateAt : {0, 1}]

\* The values utils.GetMillis() can return.
Millis == {7, 8}

\* The modifier written for every actor, the sentinel included.
StampUserIDRaw(actor) == actor

\* Lines 312-315: the modifier written for the request's actor.
StampUserID(actor) == IF actor = SingleUser THEN "" ELSE actor

\* A call of stampModificationMetadata(r, blocks, auditRec) is entered.
StampInit ==
    stamp \in [pc : {"start"},
               actor : Actors,
               hasAuditRec : BOOLEAN,
               in : SeqsUpTo(StampBlock, MaxStamp),
               blocks : {<<>>},
               userID : {""},
               now : {0},
               i : {0},
               meta : {<<>>}]

\* Lines 312-317: userID and now are set; the loop starts at index 0.
StampStart ==
    /\ stamp.pc = "start"
    /\ \E t \in Millis :
           stamp' = [stamp EXCEPT !.pc = "loop",
                                  !.blocks = stamp.in,
                                  !.userID = StampUserID(stamp.actor),
                                  !.now = t,
                                  !.i = 0]
    /\ UNCHANGED <<filterVars, handlerVars, body>>

\* One iteration of the loop with the clock read again for the block.
StampOneReadsClock ==
    /\ stamp.pc = "loop"
    /\ stamp.i < Len(stamp.blocks)
    /\ \E t \in Millis :
         LET b == [stamp.blocks[stamp.i + 1] EXCEPT
                       !.ModifiedBy = stamp.userID,
                       !.UpdateAt = t]
         IN stamp' = [stamp EXCEPT
                         !.blocks[stamp.i + 1] = b,
                         !.i = stamp.i + 1,
                         !.meta = IF stamp.hasAuditRec
                                  THEN Append(stamp.meta,
                                              [key |-> stamp.i, block |-> b])
                                  ELSE stamp.meta]
    /\ UNCHANGED <<filterVars, handlerVars, body>>

\* Lines 318-325: one iteration of `for i := range blocks` (blocks[i] of
\* the code is blocks[i + 1] here).
StampOne ==
    /\ stamp.pc = "loop"
    /\ stamp.i < Len(stamp.blocks)
    /\ LET b == [stamp.blocks[stamp.i + 1] EXCEPT
                     !.ModifiedBy = stamp.userID,
                     !.UpdateAt = stamp.now]
       IN stamp' = [stamp EXCEPT
                       !.blocks[stamp.i + 1] = b,
                       !.i = stamp.i + 1,
                       !.meta = IF stamp.hasAuditRec
                                THEN Append(stamp.meta,
                                            [key |-> stamp.i, block |-> b])
                                ELSE stamp.meta]
    /\ UNCHANGED <<filterVars, handlerVars, body>>

\* Line 326: the loop is over and the function returns.
StampReturn ==
    /\ stamp.pc = "loop"
    /\ stamp.i >= Len(stamp.blocks)
    /\ stamp' = [stamp EXCEPT !.pc = "done"]
    /\ UNCHANGED <<filterVars, handlerVars, body>>

StampNext == StampStart \/ StampOne \/ StampReturn

StampSpecInit == FilterIdle /\ HandlerIdle /\ StampInit

StampSpec == StampSpecInit /\ [][StampNext]_vars

(***************************************************************************)
(* handleGetSubTree and handleExport                                       *)
(***************************************************************************)

\* Longest value of the query parameter l, in characters.
MaxLevelLen == 2

\* Longest block list the store returns to a read handler.
MaxRead == 2

\* The characters of a drawn l: digits, a sign and a letter.
DigitValue == ("2" :> 2) @@ ("3" :> 3) @@ ("4" :> 4)

LevelChars == DOMAIN DigitValue \cup {"-", "a"}

\* query.Get("l"): the empty list when the parameter is absent.
QueryL == SeqsUpTo(LevelChars, MaxLevelLen)

\* The decimal value of a list of digits, most significant first.
RECURSIVE DecimalValue(_, _)
DecimalValue(ds, acc) ==
    IF ds = <<>> THEN acc
    ELSE DecimalValue(Tail(ds), 10 * acc + DigitValue[Head(ds)])

\* strconv.ParseInt(s, 10, 32): an optional sign and at least one digit,
\* nothing else, and a value that fits 32 bits; an error otherwise.
ParseInt(str) ==
    LET signed == str # <<>> /\ Head(str) \in {"-", "+"}
        ds == IF signed THEN Tail(str) ELSE str
        n == DecimalValue(ds, 0)
        v == IF signed /\ Head(str) = "-" THEN 0 - n ELSE n
    IN IF ds = <<>> \/ \E k \in DOMAIN ds : ds[k] \notin DOMAIN DigitValue
       THEN [err |-> TRUE, value |-> 0]
       ELSE IF v > 2147483647 \/ v < (0 - 2147483647) - 1
       THEN [err |-> TRUE, value |-> 0]
       ELSE [err |-> FALSE, value |-> v]

\* Lines 965-968: levels as parsed from l, 2 when parsing fails.
Levels(l) == IF ParseInt(l).err THEN 2 ELSE ParseInt(l).value

PermissionViewBoard == "view_board"

\* A read request: the endpoint, the query parameter of the endpoint (l or
\* root_id), whether the request carries a valid read token, whether the
\* actor may view the board, and whether the store read fails.  fetched is
\* the list the store returns, set when it is read.
ReadRequests ==
    [kind : {"subtree"}, l : QueryL, rootID : {""},
     token : BOOLEAN, view : BOOLEAN, storeErr : {"none", "down"},
     fetched : {<<>>}]
    \cup
    [kind : {"export"}, l : {<<>>}, rootID : {"", "r"},
     token : {FALSE}, view : BOOLEAN, storeErr : {"none", "down"},
     fetched : {<<>>}]

\* The lists of blocks the store can return.
StoreLists == SeqsUpTo(FilterBlock, MaxRead)

\* Lines 959-974 of handleGetSubTree and 1037-1040 of handleExport: the
\* checks made before the audit record, in the order of the code.
ReadChecks(r) ==
    LET call == PermCall("board", PermissionViewBoard, r.view) IN
    IF r.kind = "subtree"
    THEN IF ~r.token /\ ~r.view
         THEN Outcome(StatusForbidden, "", <<call>>)
         ELSE IF Levels(r.l) # 2 /\ Levels(r.l) # 3
         THEN Outcome(StatusBadRequest, "invalid levels",
                      IF r.token THEN <<>> ELSE <<call>>)
         ELSE Outcome(0, "", IF r.token THEN <<>> ELSE <<call>>)
    ELSE IF ~r.view
         THEN Outcome(StatusForbidden, "", <<call>>)
         ELSE Outcome(0, "", <<call>>)

\* The store call of the handler: a.app.GetSubTree (line 981),
\* a.app.GetBlocksForBoard (1053) or a.app.GetBlocksWithRootID (1055).
ReadCall(r) ==
    IF r.kind = "subtree"
    THEN [op |-> "GetSubTree", levels |-> Levels(r.l)]
    ELSE IF r.rootID = ""
    THEN [op |-> "GetBlocksForBoard", levels |-> 0]
    ELSE [op |-> "GetBlocksWithRootID", levels |-> 0]

\* The request arrives.
ReadReceive ==
    /\ pc = "idle"
    /\ req' \in ReadRequests
    /\ pc' = "check"
    /\ UNCHANGED <<boards, storeBlocks, status, message, permCalls,
                   persistCalls, auditRec, auditLog, body, stamp>>
    /\ UNCHANGED filterVars

\* A check fails and the handler returns its error.
ReadReject ==
    /\ pc = "check"
    /\ req.kind \in {"subtree", "export"}
    /\ LET o == ReadChecks(req) IN
         /\ o.status # 0
         /\ status' = o.status
         /\ message' = o.message
         /\ permCalls' = o.permCalls
    /\ pc' = "done"
    /\ UNCHANGED <<boards, storeBlocks, req, persistCalls, auditRec,
                   auditLog, body, stamp>>
    /\ UNCHANGED filterVars

\* The checks pass and the audit record is made with outcome failure
\* (lines 976-979, 1045-1048).
ReadAccept ==
    /\ pc = "check"
    /\ req.kind \in {"subtree", "export"}
    /\ LET o == ReadChecks(req) IN
         /\ o.status = 0
         /\ permCalls' = o.permCalls
    /\ auditRec' = MakeAuditRecord
    /\ pc' = "fetch"
    /\ UNCHANGED <<boards, storeBlocks, req, status, message, persistCalls,
                   auditLog, body, stamp>>
    /\ UNCHANGED filterVars

\* Lines 981-985, 1050-1060: the store read returns an error.
ReadFetchFails ==
    /\ pc = "fetch"
    /\ req.storeErr = "down"
    /\ persistCalls' = Append(persistCalls, ReadCall(req))
    /\ status' = StatusInternalServerError
    /\ auditLog' = Append(auditLog, auditRec)
    /\ pc' = "done"
    /\ UNCHANGED <<boards, storeBlocks, req, message, permCalls, auditRec,
                   body, stamp>>
    /\ UNCHANGED filterVars

\* Line 981: a.app.GetSubTree returns a list of blocks, which the handler
\* goes on to marshal as it is (line 993).
SubtreeFetch ==
    /\ pc = "fetch"
    /\ req.kind = "subtree"
    /\ req.storeErr = "none"
    /\ \E bs \in StoreLists : req' = [req EXCEPT !.fetched = bs]
    /\ persistCalls' = Append(persistCalls, ReadCall(req))
    /\ pc' = "marshal"
    /\ UNCHANGED <<boards, storeBlocks, status, message, permCalls, auditRec,
                   auditLog, body, stamp>>
    /\ UNCHANGED filterVars

\* Lines 1050-1065: the store returns a list of blocks and the handler
\* calls filterOrphanBlocks on it.
ExportFetch ==
    /\ pc = "fetch"
    /\ req.kind = "export"
    /\ req.storeErr = "none"
    /\ \E bs \in StoreLists :
           /\ req' = [req EXCEPT !.fetched = bs]
           /\ input' = bs
           /\ blocks' = bs
    /\ persistCalls' = Append(persistCalls, ReadCall(req))
    /\ queue' = <<>>
    /\ childrenOfBlockWithID' = EmptyMap
    /\ ret' = <<>>
    /\ fpc' = "start"
    /\ pass' = 1
    /\ pc' = "filter"
    /\ UNCHANGED <<boards, storeBlocks, status, message, permCalls, auditRec,
                   auditLog, body, stamp>>

\* Line 1065: filterOrphanBlocks has returned; its result replaces blocks.
ExportFiltered ==
    /\ pc = "filter"
    /\ fpc = "done"
    /\ pc' = "marshal"
    /\ UNCHANGED <<boards, storeBlocks, req, status, message, permCalls,
                   persistCalls, auditRec, auditLog, body, stamp>>
    /\ UNCHANGED filterVars

\* The list the handler marshals: the store's list in handleGetSubTree, the
\* result of filterOrphanBlocks in handleExport.
ReadResult == IF req.kind = "export" THEN ret ELSE req.fetched

\* Lines 993-1002, 1070-1078: the list is marshalled and written with 200,
\* and the audit record is set to success.
ReadRespond ==
    /\ pc = "marshal"
    /\ body' = ReadResult
    /\ status' = StatusOK
    /\ auditRec' = "success"
    /\ auditLog' = Append(auditLog, "success")
    /\ pc' = "done"
    /\ UNCHANGED <<boards, storeBlocks, req, message, permCalls,
                   persistCalls, stamp>>
    /\ UNCHANGED filterVars

\* Lines 993-997, 1070-1074: json.Marshal fails and 500 is written.
ReadMarshalFails ==
    /\ pc = "marshal"
    /\ status' = StatusInternalServerError
    /\ auditLog' = Append(auditLog, auditRec)
    /\ pc' = "done"
    /\ UNCHANGED <<boards, storeBlocks, req, message, permCalls,
                   persistCalls, auditRec, body, stamp>>
    /\ UNCHANGED filterVars

\* filterOrphanBlocks as called by handleExport.
ExportFilterStep ==
    /\ pc = "filter"
    /\ FilterBuild \/ FilterStep \/ FilterReturn

ReadNext ==
    \/ ReadReceive
    \/ ReadReject
    \/ ReadAccept
    \/ ReadFetchFails
    \/ SubtreeFetch
    \/ ExportFetch
    \/ ExportFilterStep
    \/ ExportFiltered
    \/ ReadRespond
    \/ ReadMarshalFails

ReadSpecInit == FilterIdle /\ HandlerIdle /\ StampIdle

ReadSpec == ReadSpecInit /\ [][ReadNext]_vars

(***************************************************************************)
(* handlePostBlocks and handleImport                                       *)
(***************************************************************************)

\* Longest block list drawn for a postBlocks or import request.
MaxInsert == 2

PermissionManageBoardCards == "manage_board_cards"

\* The board named in the path of the request.
PathBoards == {"B1"}

\* A block of the body.  CreateAt 9 lies after every reading of the clock.
InsertBlock == [ID : {"k1"}, BoardID : {"B1", "B2"}, ParentID : {""},
                Type : {"", "card"}, CreateAt : {0, 1, 9}, UpdateAt : {0, 1},
                ModifiedBy : {"u2"}]

\* A postBlocks or import request: the path board, the actor, the decoded
\* body and what the permission collaborator answers for the actor.
InsertRequests ==
    [kind : {"postBlocks", "import"},
     boardID : PathBoards,
     actor : Actors,
     blocks : SeqsUpTo(InsertBlock, MaxInsert),
     perms : SUBSET (PathBoards \X {PermissionManageBoardCards})]

\* The error checking of one block of postBlocks without the test of the
\* block's board.
PostBlockErrorNoBoardID(block, boardID) ==
    IF block.Type = "" THEN "missing type"
    ELSE IF block.CreateAt < 1 THEN "invalid createAt"
    ELSE IF block.UpdateAt < 1 THEN "invalid UpdateAt"
    ELSE ""

\* Lines 605-627: the error checking of one block, "" when it passes.
PostBlockError(block, boardID) ==
    IF block.Type = "" THEN "missing type"
    ELSE IF block.CreateAt < 1 THEN "invalid createAt"
    ELSE IF block.UpdateAt < 1 THEN "invalid UpdateAt"
    ELSE IF block.BoardID # boardID THEN "invalid BoardID"
    ELSE ""

\* Lines 603-628: the loop over the blocks returns at the first error.
RECURSIVE CheckPostBlocks(_, _, _)
CheckPostBlocks(bs, i, boardID) ==
    IF i > Len(bs) THEN ""
    ELSE IF PostBlockError(bs[i], boardID) # ""
    THEN PostBlockError(bs[i], boardID)
    ELSE CheckPostBlocks(bs, i + 1, boardID)

\* Lines 1177-1179: every block is put on the path board.
SetBoardID(bs, boardID) ==
    [n \in DOMAIN bs |-> [bs[n] EXCEPT !.BoardID = boardID]]

\* model.GenerateBlockIDs: every block gets a fresh identifier and a parent
\* reference to a block of the list is rewritten to that block's new
\* identifier; the other fields are left alone.
GenerateBlockIDs(bs) ==
    LET newOf(p) == NewBlockID(CHOOSE i \in DOMAIN bs :
                                   /\ bs[i].ID = p
                                   /\ \A j \in DOMAIN bs : bs[j].ID = p => i <= j)
    IN [n \in DOMAIN bs |->
           [bs[n] EXCEPT
               !.ID = NewBlockID(n),
               !.ParentID = IF \E i \in DOMAIN bs : bs[i].ID = bs[n].ParentID
                            THEN newOf(bs[n].ParentID)
                            ELSE bs[n].ParentID]]

\* Lines 311-326: the blocks after stampModificationMetadata(r, blocks, _)
\* for the request's actor when the clock reads now.
Stamped(bs, actor, now) ==
    [n \in DOMAIN bs |-> [bs[n] EXCEPT !.ModifiedBy = StampUserID(actor),
                                       !.UpdateAt = now]]

\* Lines 584-628 and 1152-1155: what the handler does before it makes its
\* audit record.  Both handlers ask the permission first; postBlocks then
\* checks the blocks, import checks nothing.
InsertChecks(r) ==
    LET call == PermCall(r.boardID, PermissionManageBoardCards,
                    HasPermissionToBoard(r, r.boardID,
                                         PermissionManageBoardCards))
        blockErr == CheckPostBlocks(r.blocks, 1, r.boardID)
    IN IF ~call.granted THEN Outcome(StatusForbidden, "", <<call>>)
       ELSE IF r.kind = "postBlocks" /\ blockErr # ""
       THEN Outcome(StatusBadRequest, blockErr, <<call>>)
       ELSE Outcome(0, "", <<call>>)

\* Lines 630-637 and 1177-1183: the list handed to a.app.InsertBlocks when
\* the clock reads now.  postBlocks generates the identifiers and then
\* stamps; import sets the board, stamps and then generates the identifiers.
InsertCall(r, now) ==
    [op |-> "InsertBlocks",
     blocks |-> IF r.kind = "postBlocks"
                THEN Stamped(GenerateBlockIDs(r.blocks), r.actor, now)
                ELSE GenerateBlockIDs(
                         Stamped(SetBoardID(r.blocks, r.boardID),
                                 r.actor, now)),
     now |-> now,
     err |-> FALSE]

\* The blocks in the store after a.app.InsertBlocks has stored the blocks of
\* the call.
BlocksAfterInsert(call) ==
    storeBlocks @@
        [id \in {call.blocks[k].ID : k \in DOMAIN call.blocks} |->
            LET k == CHOOSE k \in DOMAIN call.blocks : call.blocks[k].ID = id
            IN call.blocks[k].BoardID]

\* The request arrives: path variables and actor are read (579-580,
\* 1148-1150) and the body is decoded.
InsertReceive ==
    /\ pc = "idle"
    /\ req' \in InsertRequests
    /\ pc' = "check"
    /\ UNCHANGED <<boards, storeBlocks, status, message, permCalls,
                   persistCalls, auditRec, auditLog>>
    /\ UNCHANGED <<filterVars, body, stamp>>

\* Lines 584-628, 1152-1155: the permission or a block check fails.
InsertReject ==
    /\ pc = "check"
    /\ req.kind \in {"postBlocks", "import"}
    /\ LET o == InsertChecks(req) IN
         /\ o.status # 0
         /\ status' = o.status
         /\ message' = o.message
         /\ permCalls' = o.permCalls
    /\ pc' = "done"
    /\ UNCHANGED <<boards, storeBlocks, req, persistCalls, auditRec, auditLog>>
    /\ UNCHANGED <<filterVars, body, stamp>>

\* Lines 632-633, 1171-1173: every check passes and the audit record is
\* made with outcome failure.
InsertAccept ==
    /\ pc = "check"
    /\ req.kind \in {"postBlocks", "import"}
    /\ LET o == InsertChecks(req) IN
         /\ o.status = 0
         /\ permCalls' = o.permCalls
    /\ auditRec' = MakeAuditRecord
    /\ pc' = "persist"
    /\ UNCHANGED <<boards, storeBlocks, req, status, message, persistCalls,
                   auditLog>>
    /\ UNCHANGED <<filterVars, body, stamp>>

\* Lines 630-654, 1177-1192: the blocks are stamped, InsertBlocks stores
\* them, 200 is written and the audit record is set to success.  postBlocks
\* answers with the inserted blocks, import with an empty object.
InsertPersist ==
    /\ pc = "persist"
    /\ req.kind \in {"postBlocks", "import"}
    /\ \E now \in Millis :
         LET call == InsertCall(req, now) IN
           /\ persistCalls' = Append(persistCalls, call)
           /\ storeBlocks' = BlocksAfterInsert(call)
           /\ body' = IF req.kind = "postBlocks" THEN call.blocks ELSE body
    /\ status' = StatusOK
    /\ auditRec' = "success"
    /\ auditLog' = Append(auditLog, "success")
    /\ pc' = "done"
    /\ UNCHANGED <<boards, req, message, permCalls>>
    /\ UNCHANGED <<filterVars, stamp>>

\* Lines 637-641, 1183-1186: InsertBlocks returns an error: 500 is written
\* and the audit record is logged as it is.
InsertPersistFails ==
    /\ pc = "persist"
    /\ req.kind \in {"postBlocks", "import"}
    /\ \E now \in Millis :
         persistCalls' = Append(persistCalls,
                                [InsertCall(req, now) EXCEPT !.err = TRUE])
    /\ status' = StatusInternalServerError
    /\ auditLog' = Append(auditLog, auditRec)
    /\ pc' = "done"
    /\ UNCHANGED <<boards, storeBlocks, req, message, permCalls, auditRec>>
    /\ UNCHANGED <<filterVars, body, stamp>>

\* Lines 645-649: postBlocks has inserted the blocks but json.Marshal of
\* them fails: 500 is written.
InsertMarshalFails ==
    /\ pc = "persist"
    /\ req.kind = "postBlocks"
    /\ \E now \in Millis :
         LET call == InsertCall(req, now) IN
           /\ persistCalls' = Append(persistCalls, call)
           /\ storeBlocks' = BlocksAfterInsert(call)
    /\ status' = StatusInternalServerError
    /\ auditLog' = Append(auditLog, auditRec)
    /\ pc' = "done"
    /\ UNCHANGED <<boards, req, message, permCalls, auditRec>>
    /\ UNCHANGED <<filterVars, body, stamp>>

InsertNext ==
    \/ InsertReceive
    \/ InsertReject
    \/ InsertAccept
    \/ InsertPersist
    \/ InsertPersistFails
    \/ InsertMarshalFails

InsertSpecInit == FilterIdle /\ StoreInit /\ StampIdle

InsertSpec == InsertSpecInit /\ [][InsertNext]_vars

(***************************************************************************)
(* Claims about filterOrphanBlocks                                         *)
(***************************************************************************)

\* C1: the list filterOrphanBlocks returns holds no block more often than
\* the list it was given (every output block is an input block, none is
\* duplicated), also when input blocks share an ID.
C1_OutputIsSubBag ==
    (fpc = "done" /\ pass = 1) =>
        \A i \in DOMAIN ret : Count(ret, ret[i]) <= Count(input, ret[i])

\* C2: every call of filterOrphanBlocks returns: the work queue runs empty
\* and the function reaches its return statement.
C2_FilterTerminates == <>(fpc = "done")

\* The IDs of the blocks that dequeuing a block with an ID in S enqueues,
\* and so on: the closure of S under "ID of a child of".
RECURSIVE EnqueuedFrom(_, _)
EnqueuedFrom(ch, S) ==
    LET T == S \cup {b.ID : b \in UNION {Range(ChildrenOf(ch, id)) : id \in S}}
    IN IF T = S THEN S ELSE EnqueuedFrom(ch, T)

\* Dequeuing a block with this ID leads to enqueuing a block with this ID.
Recurs(ch, id) ==
    id \in EnqueuedFrom(ch, {b.ID : b \in Range(ChildrenOf(ch, id))})

\* Where the model stops following the loop, the code is still looping and
\* will be forever: the queue holds a block that leads to a block whose ID
\* re-enqueues itself.
CapIsDivergence ==
    (fpc = "loop" /\ Len(ret) = StepCap) =>
        \E id \in EnqueuedFrom(childrenOfBlockWithID,
                               {b.ID : b \in Range(queue)}) :
            Recurs(childrenOfBlockWithID, id)

\* The blocks of bs whose chain of parent IDs leads to a block with empty
\* ParentID: the least set closed under "is a root or names the ID of a
\* member as its parent".
RECURSIVE Reached(_, _)
Reached(bs, S) ==
    LET T == {b \in Range(bs) :
                 b.ParentID = "" \/ \E k \in S : k.ID = b.ParentID}
    IN IF T = S THEN S ELSE Reached(bs, T)

\* C3: a returned list holds exactly the blocks whose parent chain reaches a
\* root of the input: a block is returned iff its ParentID is empty or is
\* the ID of a returned block, and blocks with an absent parent or on a
\* cycle of parents are dropped.
C3_KeepsExactlyRooted ==
    fpc = "done" =>
        /\ Range(ret) = Reached(blocks, {})
        /\ \A b \in Range(blocks) :
               b \in Range(ret) <=>
                   (b.ParentID = "" \/ \E k \in Range(ret) : k.ID = b.ParentID)

\* The example of the specification: [A, B under A, C under an absent Z]
\* is filtered to [A, B].
C3_Witness ==
    /\ fpc = "done"
    /\ pass = 1
    /\ input = << [ID |-> "a", ParentID |-> ""],
                  [ID |-> "b", ParentID |-> "a"],
                  [ID |-> "c", ParentID |-> "z"] >>
    /\ ret = << [ID |-> "a", ParentID |-> ""],
                [ID |-> "b", ParentID |-> "a"] >>

\* C4: filterOrphanBlocks applied to its own result returns that result,
\* block for block and in the same order.
C4_Idempotent == (fpc = "done" /\ pass = 2) => ret = blocks

(***************************************************************************)
(* Claims about handleCreateBoardsAndBlocks                                *)
(***************************************************************************)

CreateTeams(r) == {r.boards[i].TeamID : i \in DOMAIN r.boards}

ContainsType(r, t) == \E i \in DOMAIN r.boards : r.boards[i].Type = t

\* The actor holds the capability on none of the teams the bundle names.
LacksOnBundle(r, perm) == \A t \in CreateTeams(r) : <<t, perm>> \notin r.perms

\* The case of C5: an open board without the create-public capability, or a
\* private board without the create-private capability.
CreateDenied(r) ==
    \/ ContainsType(r, BoardTypeOpen)
         /\ LacksOnBundle(r, PermissionCreatePublicChannel)
    \/ ContainsType(r, BoardTypePrivate)
         /\ LacksOnBundle(r, PermissionCreatePrivateChannel)

\* The bundle is one the validation steps refuse: a block without a type or
\* with a timestamp below 1, boards of more than one team, a board without
\* an ID, or a block naming a placeholder no board of the bundle carries.
CreateInvalid(r) ==
    \/ \E k \in DOMAIN r.blocks :
           \/ r.blocks[k].Type = ""
           \/ r.blocks[k].CreateAt < 1
           \/ r.blocks[k].UpdateAt < 1
    \/ Cardinality(CreateTeams(r)) > 1
    \/ \E i \in DOMAIN r.boards : r.boards[i].ID = ""
    \/ \E k \in DOMAIN r.blocks :
           \A i \in DOMAIN r.boards : r.boards[i].ID # r.blocks[k].BoardID

\* C5 as stated: a create whose bundle holds an open (private) board while
\* the actor lacks the create-public (create-private) capability is answered
\* 403 and CreateBoardsAndBlocks is never called.
C5_DeniedIs403 ==
    (req.kind = "create" /\ CreateDenied(req)) =>
        /\ pc # "persist"
        /\ persistCalls = <<>>
        /\ pc = "done" => status = StatusForbidden

\* C5 amended: for such a create CreateBoardsAndBlocks is never called, and
\* the answer is 403, or the 400 of a validation step that comes before the
\* permission gate when the bundle is also invalid (block fields, several
\* teams, a board without ID, an unknown board placeholder); a valid bundle
\* is always answered 403.
C5_DeniedNeverPersists ==
    (req.kind = "create" /\ CreateDenied(req)) =>
        /\ pc # "persist"
        /\ persistCalls = <<>>
        /\ pc = "done" =>
               \/ status = StatusForbidden
               \/ status = StatusBadRequest /\ CreateInvalid(req)

\* The example of the specification: one open board of team T1, one block on
\* it, an actor without any capability: 403, nothing persisted.
C5_Witness ==
    /\ pc = "done"
    /\ req.kind = "create"
    /\ req.boards = <<[ID |-> "b1", TeamID |-> "T1", Type |-> BoardTypeOpen]>>
    /\ req.blocks = <<[ID |-> "k1", BoardID |-> "b1", ParentID |-> "",
                       Type |-> "card", CreateAt |-> 1, UpdateAt |-> 1,
                       ModifiedBy |-> "u2"]>>
    /\ req.perms = {}
    /\ status = StatusForbidden
    /\ persistCalls = <<>>

\* C6: a create whose boards do not all carry one team identifier is
\* answered 400 and CreateBoardsAndBlocks is never called, whatever the
\* order of the boards and also when a team identifier is empty.
C6_MultiTeamRejected ==
    (req.kind = "create" /\ Cardinality(CreateTeams(req)) > 1) =>
        /\ pc # "persist"
        /\ persistCalls = <<>>
        /\ pc = "done" => status = StatusBadRequest

\* A bundle of two teams, one of them empty, has been persisted: the store
\* holds a board with the empty team.
C6_EmptyTeamStored ==
    /\ pc = "done"
    /\ req.kind = "create"
    /\ Cardinality(CreateTeams(req)) > 1
    /\ status = StatusOK
    /\ \E id \in DOMAIN boards : boards[id].TeamID = ""

\* A create can leave a board with the empty team in the store.
CreateStoresEmptyTeam == \E id \in DOMAIN boards : boards[id].TeamID = ""

(***************************************************************************)
(* Claims about handlePatchBoardsAndBlocks                                 *)
(***************************************************************************)

\* A targeted block is not stored, or its board is not among BoardIDs.
PatchBadBlock(r) ==
    \E k \in DOMAIN r.BlockIDs :
        \/ r.BlockIDs[k] \notin DOMAIN StoredBlocks
        \/ StoredBlocks[r.BlockIDs[k]] \notin Range(r.BoardIDs)

\* The actor lacks manage-board-properties on a targeted board, or
\* manage-board-type on a targeted board whose patch sets the type.
PatchLacksPermission(r) ==
    \E i \in DOMAIN r.BoardIDs :
        \/ <<r.BoardIDs[i], PermissionManageBoardProperties>> \notin r.perms
        \/ /\ i \in DOMAIN r.BoardPatches
           /\ r.BoardPatches[i].Type # NilType
           /\ <<r.BoardIDs[i], PermissionManageBoardType>> \notin r.perms

PatchTargetsMissingBoard(r) ==
    \E i \in DOMAIN r.BoardIDs : r.BoardIDs[i] \notin DOMAIN StoredBoards

PatchSpansTeams(r) ==
    Cardinality({StoredBoards[id].TeamID :
                    id \in Range(r.BoardIDs) \cap DOMAIN StoredBoards}) > 1

\* The patch set fails a validation that comes before or with the board
\* permission checks.
PatchMalformed(r) ==
    \/ Len(r.BoardIDs) # Len(r.BoardPatches)
    \/ Len(r.BlockIDs) # r.BlockPatches
    \/ \E i \in DOMAIN r.BoardPatches :
           r.BoardPatches[i].Type \notin
               {NilType, BoardTypeOpen, BoardTypePrivate}
    \/ PatchTargetsMissingBoard(r)
    \/ PatchSpansTeams(r)

\* C7 as stated: a patch naming a block that does not exist or whose board
\* is not among the patched boards is answered 400 and PatchBoardsAndBlocks
\* is never called.  (Stated for the requests during which no store read
\* fails.)
C7_BadBlockIs400 ==
    (req.kind = "patch" /\ PatchBadBlock(req) /\ req.storeErr = "none") =>
        /\ pc # "persist"
        /\ persistCalls = <<>>
        /\ pc = "done" => status = StatusBadRequest

\* C7 amended: for such a patch PatchBoardsAndBlocks is never called; the
\* answer is 400 unless the actor lacks a required permission on a targeted
\* board (403) or a store read fails (500), which the handler meets first.
C7_BadBlockNeverPatched ==
    (req.kind = "patch" /\ PatchBadBlock(req)) =>
        /\ pc # "persist"
        /\ persistCalls = <<>>
        /\ pc = "done" =>
               /\ status \in {StatusBadRequest, StatusForbidden,
                              StatusInternalServerError}
               /\ status = StatusForbidden => PatchLacksPermission(req)
               /\ status = StatusInternalServerError => req.storeErr # "none"

\* The example of the specification: block K1 lives on board B1, the patch
\* set targets board B2 only, the actor may patch B2: 400, nothing applied.
C7_Witness ==
    /\ pc = "done"
    /\ req.kind = "patch"
    /\ req.BoardIDs = <<"B2">>
    /\ req.BoardPatches = <<[Type |-> NilType]>>
    /\ req.BlockIDs = <<"K1">>
    /\ req.BlockPatches = 1
    /\ req.perms = {<<"B2", PermissionManageBoardProperties>>}
    /\ req.storeErr = "none"
    /\ status = StatusBadRequest
    /\ persistCalls = <<>>
    /\ boards = StoredBoards

\* C8 as stated: a patch for which the actor lacks manage-board-properties
\* on a targeted board, or manage-board-type on a board whose patch sets the
\* type, is answered 403 and PatchBoardsAndBlocks is never called.  (Stated
\* for the requests during which no store read fails.)
C8_DeniedIs403 ==
    (req.kind = "patch" /\ PatchLacksPermission(req)
        /\ req.storeErr = "none") =>
        /\ pc # "persist"
        /\ persistCalls = <<>>
        /\ pc = "done" => status = StatusForbidden

\* C8 amended: for such a patch PatchBoardsAndBlocks is never called; the
\* answer is 403 unless the handler first meets a validation error (lists
\* of different length, an invalid board patch, a missing board, boards of
\* several teams: 400) or a failing board read (500).
C8_DeniedNeverPatched ==
    (req.kind = "patch" /\ PatchLacksPermission(req)) =>
        /\ pc # "persist"
        /\ persistCalls = <<>>
        /\ pc = "done" =>
               /\ status \in {StatusBadRequest, StatusForbidden,
                              StatusInternalServerError}
               /\ status = StatusBadRequest => PatchMalformed(req)
               /\ status = StatusInternalServerError => req.storeErr = "down"

\* A patch that sets the type of B1 by an actor who may manage B1's
\* properties but not its type: 403, nothing applied.
C8_Witness ==
    /\ pc = "done"
    /\ req.kind = "patch"
    /\ req.BoardIDs = <<"B1">>
    /\ req.BoardPatches = <<[Type |-> BoardTypeOpen]>>
    /\ req.BlockIDs = <<>>
    /\ req.BlockPatches = 0
    /\ req.perms = {<<"B1", PermissionManageBoardProperties>>}
    /\ req.storeErr = "none"
    /\ status = StatusForbidden
    /\ persistCalls = <<>>
    /\ boards = StoredBoards

\* C9: a patch set that targets a board missing from the store, or boards of
\* more than one team, is refused: PatchBoardsAndBlocks is not called for it
\* and no patch is applied.  (The claim also fixes the answer at 400.)
C9_NoPatchAcrossTeams ==
    (req.kind = "patch"
        /\ (PatchTargetsMissingBoard(req) \/ PatchSpansTeams(req))) =>
        /\ pc # "persist"
        /\ persistCalls = <<>>
        /\ boards = StoredBoards

(***************************************************************************)
(* Claims about handleDeleteBoardsAndBlocks                                *)
(***************************************************************************)

DeleteSpansTeams(r) ==
    Cardinality({StoredBoards[id].TeamID :
                    id \in Range(r.Boards) \cap DOMAIN StoredBoards}) > 1

\* C10: a delete set whose boards belong to two different teams is refused
\* before any deletion: DeleteBoardsAndBlocks is never called for it and the
\* store keeps every board and block, whatever the order of the board IDs
\* and the actor's permissions.  (The claim also fixes the answer at 400.)
C10_NoDeleteAcrossTeams ==
    (req.kind = "delete" /\ DeleteSpansTeams(req)) =>
        /\ pc # "persist"
        /\ persistCalls = <<>>
        /\ boards = StoredBoards
        /\ storeBlocks = StoredBlocks

\* The actor lacks the delete-board permission on a targeted board.
DeleteLacksPermission(r) ==
    \E i \in DOMAIN r.Boards :
        <<r.Boards[i], PermissionDeleteBoard>> \notin r.perms

DeleteTargetsMissingBoard(r) ==
    \E i \in DOMAIN r.Boards : r.Boards[i] \notin DOMAIN StoredBoards

\* C11 as stated: a delete for which the actor lacks delete-board on a
\* targeted board is answered 403 and DeleteBoardsAndBlocks is never called.
\* (Stated for the requests during which no store read fails.)
C11_DeniedIs403 ==
    (req.kind = "delete" /\ DeleteLacksPermission(req)
        /\ req.storeErr = "none") =>
        /\ pc # "persist"
        /\ persistCalls = <<>>
        /\ pc = "done" => status = StatusForbidden

\* C11 amended: for such a delete DeleteBoardsAndBlocks is never called and
\* no board or block is removed; the answer is 403 unless the handler first
\* meets a targeted board that is missing or of another team (400) or a
\* failing board read (500).
C11_DeniedNeverDeleted ==
    (req.kind = "delete" /\ DeleteLacksPermission(req)) =>
        /\ pc # "persist"
        /\ persistCalls = <<>>
        /\ boards = StoredBoards
        /\ storeBlocks = StoredBlocks
        /\ pc = "done" =>
               /\ status \in {StatusBadRequest, StatusForbidden,
                              StatusInternalServerError}
               /\ status = StatusBadRequest =>
                      DeleteTargetsMissingBoard(req) \/ DeleteSpansTeams(req)
               /\ status = StatusInternalServerError => req.storeErr = "down"

\* A delete set of board B1 and its block K1 by an actor without the delete
\* permission on B1: 403, nothing removed.
C11_Witness ==
    /\ pc = "done"
    /\ req.kind = "delete"
    /\ req.Boards = <<"B1">>
    /\ req.Blocks = <<"K1">>
    /\ req.perms = {}
    /\ req.storeErr = "none"
    /\ status = StatusForbidden
    /\ persistCalls = <<>>
    /\ boards = StoredBoards
    /\ storeBlocks = StoredBlocks

(***************************************************************************)
(* Claims about the identifier resolver in handleCreateBoardsAndBlocks     *)
(***************************************************************************)

\* A block of the bundle names a board placeholder that no board of the
\* bundle carries: the case in which the identifier resolver fails.
ResolverFails(r) ==
    \E k \in DOMAIN r.blocks :
        \A i \in DOMAIN r.boards : r.boards[i].ID # r.blocks[k].BoardID

\* C12: a create whose bundle the identifier resolver refuses is answered
\* 400, and neither a permission check nor CreateBoardsAndBlocks is made
\* for it.
C12_UnresolvableIs400 ==
    (req.kind = "create" /\ ResolverFails(req)) =>
        /\ pc # "persist"
        /\ persistCalls = <<>>
        /\ permCalls = <<>>
        /\ boards = EmptyMap
        /\ pc = "done" => status = StatusBadRequest

\* An open board of team T1 without placeholder and a well-formed block
\* naming the placeholder b1, by an actor holding every capability on T1:
\* only the resolver refuses the bundle; 400 and no permission was asked.
C12_Witness ==
    /\ pc = "done"
    /\ req.kind = "create"
    /\ req.boards = <<[ID |-> "", TeamID |-> "T1", Type |-> BoardTypeOpen]>>
    /\ req.blocks = <<[ID |-> "k1", BoardID |-> "b1", ParentID |-> "",
                       Type |-> "card", CreateAt |-> 1, UpdateAt |-> 1,
                       ModifiedBy |-> "u2"]>>
    /\ req.perms = PermTeams \X {PermissionCreatePublicChannel,
                                 PermissionCreatePrivateChannel}
    /\ status = StatusBadRequest
    /\ permCalls = <<>>
    /\ persistCalls = <<>>

\* The identifiers a client can have put into the bundle.
Placeholders(r) ==
    {r.boards[i].ID : i \in DOMAIN r.boards}
        \cup {r.blocks[k].ID : k \in DOMAIN r.blocks}
        \cup {r.blocks[k].BoardID : k \in DOMAIN r.blocks}

\* C13: in every bundle handed to CreateBoardsAndBlocks each block's BoardID
\* is the new identifier of a board of that bundle, it is no placeholder of
\* the request, and the board it names is one that carried the placeholder
\* the block named in the request.
C13_BlocksLinkedToNewBoards ==
    \A c \in DOMAIN persistCalls :
        LET call == persistCalls[c] IN
        call.op = "CreateBoardsAndBlocks" =>
            /\ Len(call.boards) = Len(req.boards)
            /\ Len(call.blocks) = Len(req.blocks)
            /\ \A k \in DOMAIN call.blocks :
                   /\ call.blocks[k].BoardID \notin Placeholders(req)
                   /\ \E i \in DOMAIN call.boards :
                          /\ call.boards[i].ID = call.blocks[k].BoardID
                          /\ req.boards[i].ID = req.blocks[k].BoardID
            /\ \A i \in DOMAIN call.boards :
                   call.boards[i].ID \notin Placeholders(req)

\* A bundle of two boards, the first without placeholder and the second
\* with placeholder b1, and one block on b1 has been persisted: the block is
\* linked to the new identifier of the second board.
C13_Witness ==
    /\ pc = "done"
    /\ req.kind = "create"
    /\ status = StatusOK
    /\ Len(req.boards) = 2
    /\ Len(req.blocks) = 1
    /\ Len(persistCalls) = 1
    /\ persistCalls[1].blocks[1].BoardID = persistCalls[1].boards[2].ID
    /\ req.boards[2].ID = "b1"
    /\ req.boards[1].ID = ""

(***************************************************************************)
(* Claims about the audit records of the composite handlers                *)
(***************************************************************************)

\* C14: no audit record shows success for an operation that did not
\* complete.  Before the persistence call the record, if made, is at
\* failure and nothing is emitted; a record at success, held or emitted,
\* means the persistence call was made and 200 was answered; a request
\* answered with an error has emitted failure records only.
C14_NoFalseSuccess ==
    /\ pc \in {"idle", "check"} => auditRec = "none" /\ auditLog = <<>>
    /\ pc = "persist" => auditRec = "fail" /\ auditLog = <<>>
    /\ (auditRec = "success" \/ "success" \in Range(auditLog)) =>
           /\ pc = "done"
           /\ status = StatusOK
           /\ Len(persistCalls) = 1
           /\ auditRec = "success"
           /\ auditLog = <<"success">>
    /\ (pc = "done" /\ status # StatusOK) =>
           /\ auditRec # "success"
           /\ \A n \in DOMAIN auditLog : auditLog[n] = "fail"

\* A patch that passed every check and whose persistence call failed: 500,
\* and the record emitted is at failure.
C14_Witness ==
    /\ pc = "done"
    /\ req.kind = "patch"
    /\ status = StatusInternalServerError
    /\ Len(persistCalls) = 1
    /\ auditRec = "fail"
    /\ auditLog = <<"fail">>
    /\ boards = StoredBoards

\* C15: every composite request that has been answered has emitted exactly
\* one audit record, and a request answered with an error one at failure.
C15_OneAuditRecord ==
    pc = "done" =>
        /\ Len(auditLog) = 1
        /\ status # StatusOK => auditLog = <<"fail">>

\* A delete set refused for lack of the delete permission has been answered
\* and no audit record was emitted.
C15_RejectedWithoutRecord ==
    /\ pc = "done"
    /\ req.kind = "delete"
    /\ status = StatusForbidden
    /\ auditLog = <<>>
    /\ auditRec = "none"

(***************************************************************************)
(* Claims about stampModificationMetadata                                  *)
(***************************************************************************)

\* C16: when stampModificationMetadata has returned, every block of the
\* batch has as its modifier the request's actor, or the empty string when
\* the actor is "single-user"; no block has the modifier "single-user", and
\* the batch has the length it had.
C16_ModifierStamped ==
    stamp.pc = "done" =>
        /\ Len(stamp.blocks) = Len(stamp.in)
        /\ \A n \in DOMAIN stamp.blocks :
               /\ stamp.actor = "single-user" =>
                      stamp.blocks[n].ModifiedBy = ""
               /\ stamp.actor # "single-user" =>
                      stamp.blocks[n].ModifiedBy = stamp.actor
               /\ stamp.blocks[n].ModifiedBy # "single-user"

\* A batch of two blocks, one of them carrying the sentinel as modifier,
\* stamped for the single-user actor: both modifiers are empty.
C16_Witness ==
    /\ stamp.pc = "done"
    /\ stamp.actor = "single-user"
    /\ Len(stamp.in) = 2
    /\ stamp.in[1].ModifiedBy = "single-user"
    /\ stamp.in[2].ModifiedBy = "u2"
    /\ stamp.blocks[1].ModifiedBy = ""
    /\ stamp.blocks[2].ModifiedBy = ""

(***************************************************************************)
(* Claims about handleGetSubTree and handleExport                          *)
(***************************************************************************)

\* The parameter l is present and is neither "2" nor "3".
OtherLevel(r) == r.l # <<>> /\ r.l \notin {<<"2">>, <<"3">>}

\* C17: a subtree request whose l is present and is neither 2 nor 3, a
\* value that is no number included, is answered 400 and the store is not
\* read for it.  (Stated for the requests that pass the access check, which
\* the handler makes first.)
C17_OtherLevelIs400 ==
    (req.kind = "subtree" /\ OtherLevel(req) /\ (req.token \/ req.view)) =>
        /\ pc \notin {"fetch", "marshal"}
        /\ persistCalls = <<>>
        /\ pc = "done" => status = StatusBadRequest

\* A subtree request with l=a has been answered 200 after the store was
\* asked for 2 levels.
C17_LetterLevelServed ==
    /\ pc = "done"
    /\ req.kind = "subtree"
    /\ req.l = <<"a">>
    /\ status = StatusOK
    /\ persistCalls = <<[op |-> "GetSubTree", levels |-> 2]>>

\* C18: the block list a read handler answers with is the store's list
\* passed through filterOrphanBlocks: it holds exactly the blocks of the
\* store's list whose parent chain reaches a root, so no block whose chain
\* is broken.
C18_ResponsesFiltered ==
    (pc = "done" /\ req.kind \in {"subtree", "export"}
        /\ status = StatusOK) =>
        Range(body) = Reached(req.fetched, {})

\* The subtree endpoint has answered 200 with a block whose parent is in
\* neither the store's list nor the response.
C18_SubtreeReturnsOrphan ==
    /\ pc = "done"
    /\ req.kind = "subtree"
    /\ status = StatusOK
    /\ req.fetched = <<[ID |-> "a", ParentID |-> ""],
                       [ID |-> "c", ParentID |-> "z"]>>
    /\ body = req.fetched

\* The export endpoint has answered 200 with the store's list without the
\* block whose parent is absent.
C18_ExportDropsOrphan ==
    /\ pc = "done"
    /\ req.kind = "export"
    /\ status = StatusOK
    /\ req.fetched = <<[ID |-> "a", ParentID |-> ""],
                       [ID |-> "c", ParentID |-> "z"]>>
    /\ body = <<[ID |-> "a", ParentID |-> ""]>>

(***************************************************************************)
(* Claims about persistence failures and the order of the checks           *)
(***************************************************************************)

C20_NoPermissionCallBefore400 ==
    (pc = "done" /\ req.kind \in {"create", "patch", "delete"}
        /\ status = StatusBadRequest) =>
        /\ permCalls = <<>>
        /\ persistCalls = <<>>
        /\ boards = StoredBoards
        /\ storeBlocks = StoredBlocks

\* C20 amended: a composite request answered 400 has made no mutation.  A
\* create answered 400 has made no permission call, and neither has a patch
\* whose lists are of different lengths.  A patch or delete answered 400
\* may have asked permissions on targeted boards before the check that
\* failed; every such call was granted.
C20_NoMutationBefore400 ==
    (pc = "done" /\ req.kind \in {"create", "patch", "delete"}
        /\ status = StatusBadRequest) =>
        /\ persistCalls = <<>>
        /\ auditLog = <<>>
        /\ boards = StoredBoards
        /\ storeBlocks = StoredBlocks
        /\ req.kind = "create" => permCalls = <<>>
        /\ (req.kind = "patch" /\ (\/ Len(req.BoardIDs) # Len(req.BoardPatches)
                                   \/ Len(req.BlockIDs) # req.BlockPatches))
               => permCalls = <<>>
        /\ \A c \in DOMAIN permCalls :
               /\ permCalls[c].granted
               /\ req.kind = "patch" => permCalls[c].target \in Range(req.BoardIDs)
               /\ req.kind = "delete" => permCalls[c].target \in Range(req.Boards)

\* A delete set over boards of two teams by an actor who may delete both:
\* the permission on the first board was asked and granted before the team
\* check refused the second board with 400; nothing was removed.
C20_Witness ==
    /\ pc = "done"
    /\ req.kind = "delete"
    /\ req.Boards = <<"B1", "B2">>
    /\ status = StatusBadRequest
    /\ permCalls = <<PermCall("B1", PermissionDeleteBoard, TRUE)>>
    /\ persistCalls = <<>>
    /\ boards = StoredBoards
    /\ storeBlocks = StoredBlocks

\* The modifiers stampModificationMetadata can write for a request.
StampedModifiers == {StampUserID(a) : a \in Actors}

\* The blocks handed to a.app.CreateBoardsAndBlocks so far.
CreatedBlocks ==
    UNION {Range(persistCalls[c].blocks) :
               c \in {d \in DOMAIN persistCalls :
                          persistCalls[d].op = "CreateBoardsAndBlocks"}}

\* C21: every block handed to CreateBoardsAndBlocks has been stamped: its
\* modifier is the one written for the request's actor and its update
\* timestamp is a reading of the server's clock, not the client's value.
C21_CreateStampsBlocks ==
    \A b \in CreatedBlocks :
        /\ b.ModifiedBy \in StampedModifiers
        /\ b.UpdateAt \in Millis

\* A create has handed over a block that still carries the modifier and the
\* update timestamp written by the client.
C21_ClientStampHandedOver ==
    /\ pc = "done"
    /\ req.kind = "create"
    /\ status = StatusOK
    /\ \E k \in DOMAIN req.blocks :
           \E b \in CreatedBlocks :
               /\ b.ModifiedBy = req.blocks[k].ModifiedBy
               /\ b.UpdateAt = req.blocks[k].UpdateAt
               /\ b.ModifiedBy = "u2"
               /\ b.UpdateAt = 1

\* A board of the bundle other than the first has an empty placeholder ID.
LaterBoardWithoutID(r) ==
    \E i \in DOMAIN r.boards : i >= 2 /\ r.boards[i].ID = ""

\* C22: a create whose bundle has a board at position 2 or later with an
\* empty ID is answered 400 and nothing is handed to the persistence layer,
\* whatever the teams of the boards before it.
C22_LaterBoardNeedsID ==
    (pc = "done" /\ req.kind = "create" /\ LaterBoardWithoutID(req)) =>
        /\ status = StatusBadRequest
        /\ persistCalls = <<>>

\* A bundle whose first board has the empty team and whose second board has
\* no ID is created: both boards are handed to CreateBoardsAndBlocks.
C22_BoardWithoutIDCreated ==
    /\ pc = "done"
    /\ req.kind = "create"
    /\ req.boards = <<[ID |-> "b1", TeamID |-> "", Type |-> "X"],
                      [ID |-> "", TeamID |-> "T1", Type |-> "X"]>>
    /\ req.blocks = <<>>
    /\ status = StatusOK
    /\ Len(persistCalls) = 1
    /\ Len(persistCalls[1].boards) = 2

\* With a first board of a non-empty team the check is made: the same second
\* board is rejected.
C22_BoardWithoutIDRejected ==
    /\ pc = "done"
    /\ req.kind = "create"
    /\ req.boards = <<[ID |-> "b1", TeamID |-> "T1", Type |-> "X"],
                      [ID |-> "", TeamID |-> "T1", Type |-> "X"]>>
    /\ status = StatusBadRequest
    /\ message = "boards need an ID to be referenced from the blocks"
    /\ persistCalls = <<>>

\* A block of the bundle fails the structural validation.
HasBadBlock(r) ==
    \E k \in DOMAIN r.blocks :
        \/ r.blocks[k].Type = ""
        \/ r.blocks[k].CreateAt < 1
        \/ r.blocks[k].UpdateAt < 1

\* C23: a create whose bundle has a block with an empty type, createAt < 1
\* or updateAt < 1 is answered 400; no permission is asked, nothing is
\* handed to the persistence layer and no board or block is stored.
C23_BadBlockIs400 ==
    (pc = "done" /\ req.kind = "create" /\ HasBadBlock(req)) =>
        /\ status = StatusBadRequest
        /\ message \in {"missing type", "invalid createAt", "invalid UpdateAt"}
        /\ permCalls = <<>>
        /\ persistCalls = <<>>
        /\ \A i \in DOMAIN req.boards : NewBoardID(i) \notin DOMAIN boards
        /\ \A k \in DOMAIN req.blocks : NewBlockID(k) \notin DOMAIN storeBlocks

\* A bundle that is valid and permitted except for a block with updateAt 0
\* has been rejected.
C23_Witness ==
    /\ pc = "done"
    /\ req.kind = "create"
    /\ req.boards = <<[ID |-> "b1", TeamID |-> "T1", Type |-> BoardTypeOpen]>>
    /\ req.blocks = <<[ID |-> "k1", BoardID |-> "b1", ParentID |-> "",
                       Type |-> "card", CreateAt |-> 1, UpdateAt |-> 0,
                       ModifiedBy |-> "u2"]>>
    /\ <<"T1", PermissionCreatePublicChannel>> \in req.perms
    /\ status = StatusBadRequest
    /\ message = "invalid UpdateAt"
    /\ persistCalls = <<>>

IsRoot(block) == block.ParentID = ""

\* The blocks of bs whose parent is the block at position n of level, for
\* n, n + 1, ..., in that order and each group in the order of bs.
RECURSIVE ChildrenOfLevel(_, _, _)
ChildrenOfLevel(bs, level, n) ==
    IF n > Len(level) THEN <<>>
    ELSE LET IsChild(block) == block.ParentID = level[n].ID
         IN SelectSeq(bs, IsChild) \o ChildrenOfLevel(bs, level, n + 1)

\* The level order of bs from the given level on: the level, then the
\* children of its blocks, then their children, for at most d more levels.
RECURSIVE LevelsFrom(_, _, _)
LevelsFrom(bs, level, d) ==
    IF level = <<>> \/ d = 0 THEN level
    ELSE level \o LevelsFrom(bs, ChildrenOfLevel(bs, level, 1), d - 1)

\* The roots of bs in the order supplied, then the blocks of depth 1, then
\* those of depth 2, and so on.
LevelOrder(bs) == LevelsFrom(bs, SelectSeq(bs, IsRoot), StepCap)

\* C24: when filterOrphanBlocks returns, its output is the level order of
\* its input: the roots in the order supplied, then the blocks of depth 1,
\* then depth 2, the children of one parent in the order supplied.  The empty
\* list yields the empty list and a list of roots is returned as it is.
C24_BreadthFirstOrder ==
    fpc = "done" =>
        /\ ret = LevelOrder(blocks)
        /\ blocks = <<>> => ret = <<>>
        /\ (\A n \in DOMAIN blocks : IsRoot(blocks[n])) => ret = blocks

\* A list with a root supplied between its two children: the root comes
\* first and the children follow in the order supplied.
C24_Witness ==
    /\ fpc = "done"
    /\ pass = 1
    /\ input = <<[ID |-> "c", ParentID |-> "a"],
                 [ID |-> "a", ParentID |-> ""],
                 [ID |-> "b", ParentID |-> "a"]>>
    /\ ret = <<[ID |-> "a", ParentID |-> ""],
               [ID |-> "c", ParentID |-> "a"],
               [ID |-> "b", ParentID |-> "a"]>>

\* A chain supplied leaf first comes out root first, one depth after another.
C24_ChainWitness ==
    /\ fpc = "done"
    /\ input = <<[ID |-> "c", ParentID |-> "b"],
                 [ID |-> "b", ParentID |-> "a"],
                 [ID |-> "a", ParentID |-> ""]>>
    /\ ret = <<[ID |-> "a", ParentID |-> ""],
               [ID |-> "b", ParentID |-> "a"],
               [ID |-> "c", ParentID |-> "b"]>>

\* C25: when stampModificationMetadata has returned, every block of the
\* batch carries the same update timestamp: the one reading of the clock
\* made for the call.
C25_OneTimestampPerBatch ==
    stamp.pc = "done" =>
        /\ stamp.now \in Millis
        /\ \A n \in DOMAIN stamp.blocks : stamp.blocks[n].UpdateAt = stamp.now
        /\ \A m, n \in DOMAIN stamp.blocks :
               stamp.blocks[m].UpdateAt = stamp.blocks[n].UpdateAt

\* A batch of two blocks that came with different update timestamps has
\* been stamped.
C25_Witness ==
    /\ stamp.pc = "done"
    /\ Len(stamp.in) = 2
    /\ stamp.in[1].UpdateAt = 0
    /\ stamp.in[2].UpdateAt = 1
    /\ stamp.blocks[1].UpdateAt = 8
    /\ stamp.blocks[2].UpdateAt = 8

(***************************************************************************)
(* Claims about handlePostBlocks and handleImport                          *)
(***************************************************************************)

\* The blocks handed to a.app.InsertBlocks so far.
InsertedBlocks ==
    UNION {Range(persistCalls[c].blocks) :
               c \in {d \in DOMAIN persistCalls :
                          persistCalls[d].op = "InsertBlocks"}}

\* C26: every block handed to the persistence layer for insertion has
\* updateAt >= createAt >= 1, whatever timestamps the client supplied and
\* whatever the clock reads.
C26_TimestampsOrdered ==
    \A b \in InsertedBlocks \cup CreatedBlocks :
        /\ b.CreateAt >= 1
        /\ b.UpdateAt >= b.CreateAt

\* postBlocks has inserted a block whose createAt lies after the clock's
\* reading: its updateAt is before its createAt.
C26_PostBlocksUpdatedBeforeCreated ==
    /\ pc = "done"
    /\ req.kind = "postBlocks"
    /\ status = StatusOK
    /\ \E b \in InsertedBlocks : b.CreateAt = 9 /\ b.UpdateAt = 7

\* import has inserted a block with createAt 0.
C26_ImportCreateAtZero ==
    /\ pc = "done"
    /\ req.kind = "import"
    /\ status = StatusOK
    /\ \E b \in InsertedBlocks : b.CreateAt = 0

\* C27: a create hands a bundle to CreateBoardsAndBlocks only after the
\* actor has been granted a team-level create permission in that request,
\* also when the bundle has no boards or only boards that are neither open
\* nor private.
C27_CreateNeedsTeamPermission ==
    (req.kind = "create" /\ persistCalls # <<>>) =>
        \E c \in DOMAIN permCalls :
            /\ permCalls[c].granted
            /\ permCalls[c].perm \in {PermissionCreatePublicChannel,
                                      PermissionCreatePrivateChannel}

\* A board that is neither open nor private has been created on team T1 for
\* an actor without any permission, and no permission was asked.
C27_UntypedBoardCreated ==
    /\ pc = "done"
    /\ req.kind = "create"
    /\ req.boards = <<[ID |-> "b1", TeamID |-> "T1", Type |-> "X"]>>
    /\ req.perms = {}
    /\ status = StatusOK
    /\ permCalls = <<>>
    /\ Len(persistCalls) = 1
    /\ NewBoardID(1) \in DOMAIN boards

\* A bundle without boards and blocks has reached CreateBoardsAndBlocks and
\* no permission was asked.
C27_EmptyBundleHandedOver ==
    /\ pc = "done"
    /\ req.kind = "create"
    /\ req.boards = <<>>
    /\ req.blocks = <<>>
    /\ req.perms = {}
    /\ status = StatusOK
    /\ permCalls = <<>>
    /\ Len(persistCalls) = 1

\* C28: every block ID handed to DeleteBoardsAndBlocks is the ID of a block
\* of one of the boards handed over with it, i.e. of a board on which the
\* delete-board permission was checked.
C28_BlocksOfTargetedBoards ==
    \A c \in DOMAIN persistCalls :
        persistCalls[c].op = "DeleteBoardsAndBlocks" =>
            \A k \in DOMAIN persistCalls[c].Blocks :
                LET id == persistCalls[c].Blocks[k] IN
                /\ id \in DOMAIN StoredBlocks
                /\ StoredBlocks[id] \in Range(persistCalls[c].Boards)

\* Block K1 of board B1 has been deleted by a request that targets board B2
\* only: the one permission asked is delete-board on B2.
C28_ForeignBlockDeleted ==
    /\ pc = "done"
    /\ req.kind = "delete"
    /\ req.Boards = <<"B2">>
    /\ req.Blocks = <<"K1">>
    /\ StoredBlocks["K1"] = "B1"
    /\ status = StatusOK
    /\ permCalls = <<PermCall("B2", PermissionDeleteBoard, TRUE)>>
    /\ "K1" \notin DOMAIN storeBlocks
    /\ "B1" \in DOMAIN boards

\* A block of the body names a board other than the path board.
NamesOtherBoard(r) ==
    \E k \in DOMAIN r.blocks : r.blocks[k].BoardID # r.boardID

InsertPermitted(r) ==
    <<r.boardID, PermissionManageBoardCards>> \in r.perms

C29_ImportWitness ==
    /\ pc = "done"
    /\ req.kind = "import"
    /\ req.boardID = "B1"
    /\ Len(req.blocks) = 1
    /\ req.blocks[1].BoardID = "B2"
    /\ status = StatusOK
    /\ Len(persistCalls) = 1
    /\ persistCalls[1].blocks[1].BoardID = "B1"
    /\ storeBlocks[NewBlockID(1)] = "B1"

(***************************************************************************)
(* Claims about a composite patch with concurrent requests                 *)
(***************************************************************************)

\* What the patch validated about the existence of its targets, read of the
\* store as it is now: every targeted board is stored, every targeted block
\* is stored and belongs to a targeted board.
PatchTargetsStored(r) ==
    /\ \A i \in DOMAIN r.BoardIDs : r.BoardIDs[i] \in DOMAIN boards
    /\ \A k \in DOMAIN r.BlockIDs :
           /\ r.BlockIDs[k] \in DOMAIN storeBlocks
           /\ storeBlocks[r.BlockIDs[k]] \in Range(r.BoardIDs)

\* C30: whenever the patch handler is about to call PatchBoardsAndBlocks,
\* and in every call it has made, the conditions it validated hold of the
\* store: no other request has removed or changed a targeted board or block
\* since the validation reads.
C30_ValidatedAtApply ==
    (req.kind = "patch" /\ pc = "persist") =>
        /\ PatchTargetsStored(req)
        /\ PatchChecks(req).status = 0

\* The patch of board B1 and its block K1 has passed its checks and is about
\* to be applied, and meanwhile another request has deleted B1 and K1.
C30_TargetDeletedBeforeApply ==
    /\ pc = "persist"
    /\ req.kind = "patch"
    /\ req.BoardIDs = <<"B1">>
    /\ req.BlockIDs = <<"K1">>
    /\ permCalls = <<PermCall("B1", PermissionManageBoardProperties, TRUE)>>
    /\ "B1" \notin DOMAIN boards
    /\ "K1" \notin DOMAIN storeBlocks

\* The patch set naming the deleted board has been handed to
\* PatchBoardsAndBlocks.
C30_AppliedToDeletedBoard ==
    /\ pc = "done"
    /\ req.kind = "patch"
    /\ req.BoardIDs = <<"B1">>
    /\ Len(persistCalls) = 1
    /\ persistCalls[1].op = "PatchBoardsAndBlocks"
    /\ persistCalls[1].BoardIDs = <<"B1">>
    /\ "B1" \notin DOMAIN boards

====
